---- MODULE Spec2Model ----
(***************************************************************************)
(* Theme extraction workflow: the chunked theme-extraction driver          *)
(* (extractThemes / processLargeSrt / splitAndProcessChunk), the cue-text  *)
(* parser and formatter it is built on, and the theme consolidator         *)
(* (mergeOverlappingThemes / areSimilarThemes).                            *)
(*                                                                         *)
(* Strings are modelled by what the code reads of them.  A cue text is the *)
(* sequence of its lines (the result of split('\n')); a line carries its   *)
(* kind (which regular expressions match it), the value parseInt gives it, *)
(* its length in characters and its number of whitespace-separated words.  *)
(* A timestamp "HH:MM:SS,mmm" is the record of its fields.  Seconds are    *)
(* kept in milliseconds, so that the float arithmetic of the code is exact *)
(* integer arithmetic here.                                                *)
(***************************************************************************)
EXTENDS Integers, Sequences, FiniteSets, TLC

\* ------------------------------------------------------------------ bounds

\* Largest number of blocks (cues or stray lines) in the transcript.
MaxBlocks == 3

\* Largest number of spans handed to the consolidator on its own.
MaxSpans == 3

\* Largest number of silences in the silence list.
MaxSilences == 2

\* Largest number of scene changes.
MaxScenes == 2

\* Largest number of cues in a subtitle text, and of texts to combine.
MaxCues == 2

MaxFiles == 2

\* Largest number of windows the audio is cut into.
MaxWindows == 3

\* Largest number of lines the user types during one run of the workflow.
MaxKeys == 2

\* ------------------------------------------------------------- generic help

Min2(a, b) == IF a < b THEN a ELSE b

Max2(a, b) == IF a > b THEN a ELSE b

\* Math.ceil(a / b) for a >= 0, b > 0.
CeilDiv(a, b) == (a + b - 1) \div b

RECURSIVE Flatten(_)
Flatten(ss) == IF ss = <<>> THEN <<>> ELSE Head(ss) \o Flatten(Tail(ss))

RECURSIVE SumLen(_)
SumLen(ls) == IF ls = <<>> THEN 0 ELSE Head(ls).len + SumLen(Tail(ls))

RECURSIVE SumWords(_)
SumWords(ls) == IF ls = <<>> THEN 0 ELSE Head(ls).w + SumWords(Tail(ls))

\* ------------------------------------------------------------------- lines

\* parseInt gives NaN.
NaN == -1

RECURSIVE Digits(_)
Digits(n) == IF n < 10 THEN 1 ELSE 1 + Digits(n \div 10)

\* "" (or whitespace only): trim() === ''.
Blank == [k |-> "blank", n |-> NaN, len |-> 0, w |-> 0, s |-> 0, e |-> 0]

\* A line of digits only, such as the index line "12".
NumLine(n) == [k |-> "num", n |-> n, len |-> Digits(n), w |-> 1, s |-> 0, e |-> 0]

\* "HH:MM:SS,mmm --> HH:MM:SS,mmm" with start s and end e in whole seconds
\* (the milliseconds are never read by parseSrt).  parseInt reads the hours.
TsLine(s, e) == [k |-> "ts", n |-> s \div 3600, len |-> 29, w |-> 3, s |-> s, e |-> e]

\* "HH:MM:SS --> HH:MM:SS", what formatSubtitlesToSrt prints from a parsed cue.
TsNoMsLine(s, e) == [k |-> "tsx", n |-> s \div 3600, len |-> 21, w |-> 3, s |-> s, e |-> e]

\* Any other line: n is what parseInt reads from its leading digits, if any.
TextLine(n, len, w) == [k |-> "text", n |-> n, len |-> len, w |-> w, s |-> 0, e |-> 0]

\* lines[i].trim() === ''
IsBlank(l) == l.k = "blank"

\* /^\d+$/.test(lines[i].trim())
IsDigits(l) == l.k = "num"

\* /(\d{2}:\d{2}:\d{2}),\d{3} --> (\d{2}:\d{2}:\d{2}),\d{3}/ matches the line.
TsMatch(l) == l.k = "ts"

\* parseInt(lines[i])
ParseInt(l) == l.n

\* String.length of the text whose lines are ls (the lines and the "\n" between).
StrLength(ls) == SumLen(ls) + (Len(ls) - 1)

\* ------------------------------------------------------------------ parseSrt

\* The index after the text lines that start at i: the text runs up to the next
\* blank line or digits-only line, or the end of the input.
RECURSIVE TextEnd(_, _)
TextEnd(lines, i) ==
  IF i <= Len(lines) /\ ~IsBlank(lines[i]) /\ ~IsDigits(lines[i])
  THEN TextEnd(lines, i + 1)
  ELSE i

RECURSIVE ParseFrom(_, _, _)
ParseFrom(lines, i, subtitles) ==
  IF i > Len(lines) THEN subtitles
  ELSE IF IsBlank(lines[i]) THEN ParseFrom(lines, i + 1, subtitles)
  ELSE IF ParseInt(lines[i]) = NaN THEN ParseFrom(lines, i + 1, subtitles)
  ELSE IF i + 1 > Len(lines) THEN subtitles
  ELSE IF ~TsMatch(lines[i + 1]) THEN ParseFrom(lines, i + 2, subtitles)
  ELSE LET t == TextEnd(lines, i + 2)
       IN  ParseFrom(lines, t,
                     Append(subtitles,
                            [id    |-> ParseInt(lines[i]),
                             start |-> lines[i + 1].s,
                             end   |-> lines[i + 1].e,
                             text  |-> SubSeq(lines, i + 2, t - 1)]))

parseSrt(srtContent) == ParseFrom(srtContent, 1, <<>>)

\* ------------------------------------------------------ formatSubtitlesToSrt

\* The lines of `${sub.text}`: an empty text is one empty line.
TextLines(text) == IF text = <<>> THEN <<Blank>> ELSE text

\* `${sub.id}\n${sub.start} --> ${sub.end}\n${sub.text}\n`, as lines; the line
\* after the last "\n" is the empty line that join('\n') leaves between cues.
FormatCue(sub) ==
  <<NumLine(sub.id), TsNoMsLine(sub.start, sub.end)>> \o TextLines(sub.text) \o <<Blank>>

RECURSIVE FormatAll(_)
FormatAll(subs) == IF subs = <<>> THEN <<>> ELSE FormatCue(Head(subs)) \o FormatAll(Tail(subs))

formatSubtitlesToSrt(subtitles) ==
  IF subtitles = <<>> THEN <<Blank>> ELSE FormatAll(subtitles)


\* ------------------------------------------------------------- timestamps

\* The string "HH:MM:SS,mmm".
TimeStr(h, m, s, ms) == [wf |-> TRUE, h |-> h, m |-> m, s |-> s, ms |-> ms]

\* The string "HH:MM:SS": the form of the timestamps in the chunks sent to the
\* extractor, which /(\d{2}):(\d{2}):(\d{2}),(\d{3})/ does not match.
TimeNoMs(h, m, s) == [wf |-> FALSE, h |-> h, m |-> m, s |-> s, ms |-> 0]

\* timeToSeconds, in milliseconds: 0 when the pattern does not match.
timeToSeconds(timeStr) ==
  IF ~timeStr.wf THEN 0
  ELSE (timeStr.h * 3600 + timeStr.m * 60 + timeStr.s) * 1000 + timeStr.ms

\* ------------------------------------------------------------------ labels

\* A label is the sequence of its whitespace-separated raw words, a raw word the
\* sequence of its pieces: a piece is a filler phrase, a punctuation mark or
\* any other run of characters.  The Japanese pieces are written in Latin
\* letters: "nitsuite", "nikanshite", "towa" and "nohouhou" are the four filler
\* phrases that normalizeTheme deletes.
FillerPhrases == {"nitsuite", "nikanshite", "towa", "nohouhou"}

Punctuation == {".", ",", ";", ":", "!", "?", "'", "\"", "(", ")"}

\* toLowerCase() on a piece.
ToLowerCase(piece) ==
  CASE piece = "AI" -> "ai"
    [] piece = "History" -> "history"
    [] OTHER -> piece

\* A raw word after toLowerCase and the two replace calls.
NormalizeWord(word) ==
  LET lower == [i \in 1..Len(word) |-> ToLowerCase(word[i])]
  IN  SelectSeq(lower, LAMBDA p : p \notin FillerPhrases /\ p \notin Punctuation)

\* normalizeTheme(theme).split(/\s+/): the raw words that are not emptied;
\* trim() removes the emptied words at both ends, /\s+/ swallows those in the
\* middle, and ''.split(/\s+/) is [''], one empty word.
NormalizedWords(theme) ==
  LET ws == SelectSeq([i \in 1..Len(theme) |-> NormalizeWord(theme[i])],
                      LAMBDA w : w # <<>>)
  IN  IF ws = <<>> THEN << <<>> >> ELSE ws

\* words1.filter(word => words2.includes(word)).length
CommonWords(words1, words2) ==
  Cardinality({i \in 1..Len(words1) : \E j \in 1..Len(words2) : words2[j] = words1[i]})

areSimilarThemes(theme1, theme2) ==
  LET words1 == NormalizedWords(theme1)
      words2 == NormalizedWords(theme2)
      minWordCount == Min2(Len(words1), Len(words2))
  IN  IF Len(words1) = 0 \/ Len(words2) = 0 THEN FALSE
      ELSE IF minWordCount <= 3
           \* similarityRatio >= 0.7
           THEN 20 * CommonWords(words1, words2) >= 7 * (Len(words1) + Len(words2))
           \* similarityRatio >= 0.5
           ELSE 4 * CommonWords(words1, words2) >= Len(words1) + Len(words2)

\* ------------------------------------------------- mergeOverlappingThemes

\* A sort that is not stable: an entry goes before the entries it compares equal to.
RECURSIVE InsertSortedUnstable(_, _)
InsertSortedUnstable(sorted, x) ==
  IF sorted = <<>> THEN <<x>>
  ELSE IF timeToSeconds(Head(sorted).start) - timeToSeconds(x.start) >= 0
       THEN <<x>> \o sorted
       ELSE <<Head(sorted)>> \o InsertSortedUnstable(Tail(sorted), x)

\* themes.sort((a, b) => timeToSeconds(a.start) - timeToSeconds(b.start)):
\* a stable sort, so an entry goes after the entries that do not compare greater.
RECURSIVE InsertSorted(_, _)
InsertSorted(sorted, x) ==
  IF sorted = <<>> THEN <<x>>
  ELSE IF timeToSeconds(Head(sorted).start) - timeToSeconds(x.start) > 0
       THEN <<x>> \o sorted
       ELSE <<Head(sorted)>> \o InsertSorted(Tail(sorted), x)

RECURSIVE SortFrom(_, _)
SortFrom(themes, sorted) ==
  IF themes = <<>> THEN sorted
  ELSE SortFrom(Tail(themes), InsertSorted(sorted, Head(themes)))

\* The sort left out.
SortByStartNone(themes) == themes

SortByStart(themes) == SortFrom(themes, <<>>)

\* The merge test of the loop body.
ShouldMerge(currentTheme, theme) ==
  LET currentEndTime == timeToSeconds(currentTheme.end)
      nextStartTime == timeToSeconds(theme.start)
  IN  /\ (nextStartTime - currentEndTime < 10000 \/ nextStartTime <= currentEndTime)
      /\ areSimilarThemes(currentTheme.theme, theme.theme)

\* The end taken from the merged theme without the comparison.
ExtendEndAlways(currentTheme, theme) == [currentTheme EXCEPT !.end = theme.end]

\* The running theme after theme was merged into it: the later end is kept.
ExtendEnd(currentTheme, theme) ==
  IF timeToSeconds(theme.end) > timeToSeconds(currentTheme.end)
  THEN [currentTheme EXCEPT !.end = theme.end]
  ELSE currentTheme

\* The loop body with the label of the running theme taken from the merged one.
MergeStepRelabel(st, theme) ==
  IF st.cur = <<>> THEN [cur |-> <<theme>>, merged |-> st.merged]
  ELSE IF ShouldMerge(st.cur[1], theme)
       THEN [cur |-> <<[ExtendEnd(st.cur[1], theme) EXCEPT !.theme = theme.theme]>>,
             merged |-> st.merged]
       ELSE [cur |-> <<theme>>, merged |-> Append(st.merged, st.cur[1])]

\* One turn of the for loop: st.cur is <<>> (null) or the one running theme,
\* st.merged the themes pushed so far.
MergeStep(st, theme) ==
  IF st.cur = <<>> THEN [cur |-> <<theme>>, merged |-> st.merged]
  ELSE IF ShouldMerge(st.cur[1], theme)
       THEN [cur |-> <<ExtendEnd(st.cur[1], theme)>>, merged |-> st.merged]
       ELSE [cur |-> <<theme>>, merged |-> Append(st.merged, st.cur[1])]

\* After the loop: the last running theme is pushed.
MergeFinish(st) == IF st.cur = <<>> THEN st.merged ELSE Append(st.merged, st.cur[1])

RECURSIVE MergeLoop(_, _)
MergeLoop(themes, st) ==
  IF themes = <<>> THEN st ELSE MergeLoop(Tail(themes), MergeStep(st, Head(themes)))

\* The value mergeOverlappingThemes returns.
mergeOverlappingThemes(themes) ==
  MergeFinish(MergeLoop(SortByStart(themes), [cur |-> <<>>, merged |-> <<>>]))

\* ------------------------------------------------------ budget and estimate

\* promptOverhead: the tokens set aside for the prompts.
promptOverhead == 500

\* The default of openaiModelLimits[model] || 16385.
DefaultOpenAiTokens == 16385

\* The default of googleModelLimits[model] || 32768.
DefaultGoogleTokens == 32768

getModelMaxTokens(model, provider) ==
  IF provider = "google"
  THEN CASE model = "gemini-pro" -> 32768
         [] model = "gemini-1.5-flash" -> 1048576
         [] model = "gemini-1.5-pro" -> 1048576
         [] OTHER -> DefaultGoogleTokens
  ELSE CASE model = "gpt-3.5-turbo" -> 16385
         [] model = "gpt-3.5-turbo-16k" -> 16385
         [] model = "gpt-4" -> 8192
         [] model = "gpt-4-32k" -> 32768
         [] model = "gpt-4-turbo" -> 128000
         [] OTHER -> DefaultOpenAiTokens

\* srtContent.split(/\s+/).length: the words of the lines, and one empty string
\* more at each end of the text that is whitespace (an empty first or last line).
WordCount(lines) ==
  IF SumWords(lines) = 0 THEN (IF Len(lines) = 1 THEN 1 ELSE 2)
  ELSE SumWords(lines) + (IF IsBlank(lines[1]) THEN 1 ELSE 0)
                       + (IF IsBlank(lines[Len(lines)]) THEN 1 ELSE 0)

\* Math.ceil(Math.max(wordCount * 8.0, charCount / 3))
estimateSrtTokens(srtContent) ==
  Max2(WordCount(srtContent) * 8, CeilDiv(StrLength(srtContent), 3))

\* Math.floor(maxContentTokens / (srtContent.length / subtitles.length / 4) / 4).
\* With no cue the average is Infinity (or NaN) and the count is 0 (or NaN): the
\* partition loop does not run then, and 0 stands for both.
SubtitlesPerChunk(srtContent, subtitles, maxContentTokens) ==
  IF Len(subtitles) = 0 THEN 0
  ELSE (maxContentTokens * Len(subtitles)) \div StrLength(srtContent)

\* subtitles.slice(i, i + size), i counted from 0.
Slice(subtitles, i, size) == SubSeq(subtitles, i + 1, Min2(i + size, Len(subtitles)))

\* The sub-chunk size with the quotient rounded down.
SubChunkSizeFloor(subtitles) == Max2(5, Len(subtitles) \div 4)

\* Math.max(5, Math.ceil(subtitles.length / 4))
SubChunkSize(subtitles) == Max2(5, CeilDiv(Len(subtitles), 4))

\* The whole partition loop of splitAndProcessChunk: the slices it cuts.
RECURSIVE SubSlices(_, _, _)
SubSlices(subtitles, i, size) ==
  IF i >= Len(subtitles) THEN <<>>
  ELSE <<Slice(subtitles, i, size)>> \o SubSlices(subtitles, i + size, size)

\* The items put in front (unshift for push).
PushAllFront(acc, items) == items \o acc

\* allThemes.push(...chunkThemes), results.push(...subThemes)
PushAll(acc, items) == acc \o items

\* The test without the comparison of the message.
SplitAgainAnyError(message, chunk) == StrLength(chunk) > 1000

\* The test of the catch block of processLargeSrt: split the chunk again?
SplitAgain(message, chunk) == message = "FORCE_SPLIT" /\ StrLength(chunk) > 1000

\* The catch block without the skip.
SkipSubChunkNever(message) == FALSE

\* The test of the catch block of splitAndProcessChunk: skip the sub-chunk?
SkipSubChunk(message) == message = "FORCE_SPLIT"

\* ------------------------------------------------------------ the inputs

\* The transcript is a sequence of blocks.  The block at position p is
\*   "P" a cue with a short text (its id is p),
\*   "L" a cue with a long text,
\*   "X" a cue whose text is a line that starts with a digit, a timestamp line
\*       and a long text line (the only kind of cue that parseSrt reads a cue
\*       from again after formatSubtitlesToSrt),
\*   "J" a long stray line that is part of no cue.
BlockKinds == {"P", "L", "X", "J"}

BlockLines(kind, p) ==
  LET s == 10 * (p - 1)
  IN  CASE kind = "P" -> <<NumLine(p), TsLine(s, s + 8), TextLine(NaN, 40, 6), Blank>>
        [] kind = "L" -> <<NumLine(p), TsLine(s, s + 8), TextLine(NaN, 3900, 500), Blank>>
        [] kind = "X" -> <<NumLine(p), TsLine(s, s + 8), TextLine(3, 6, 2),
                           TsLine(s + 1, s + 2), TextLine(NaN, 2950, 400), Blank>>
        [] kind = "J" -> <<TextLine(NaN, 9000, 1200), Blank>>

Transcript(kinds) == Flatten([p \in 1..Len(kinds) |-> BlockLines(kinds[p], p)])

\* Every transcript of up to MaxBlocks blocks, for a model of 8192 tokens and
\* one of 16385.
ShortInputs ==
  {<<Transcript(kinds), m>> :
     kinds \in UNION {[1..n -> BlockKinds] : n \in 1..MaxBlocks},
     m \in {<<"gpt-4", "openai">>, <<"gpt-3.5-turbo", "openai">>}}

\* A longer transcript of "X" cues, one of whose chunks is cut into sub-chunks
\* again: six of them and a short cue, cut into a chunk of six cues and a chunk
\* of one, and on FORCE_SPLIT the six into sub-chunks of five and of one.
LongInputs ==
  {<<Transcript([p \in 1..6 |-> "X"] \o <<"P">>), <<"gpt-3.5-turbo", "openai">>>>}

Inputs == ShortInputs \cup LongInputs

\* What the extractor answers.
LabelHistoryAbout == << <<"AI", "norekishi", "nitsuite">> >>

LabelHistory == << <<"AI", "norekishi">> >>

LabelCats == << <<"nekonokaikata">> >>

ThemeA == [start |-> TimeStr(0, 0, 5, 0), end |-> TimeStr(0, 0, 20, 0), theme |-> LabelHistoryAbout]

ThemeB == [start |-> TimeStr(0, 1, 0, 0), end |-> TimeStr(0, 1, 30, 500), theme |-> LabelCats]

ThemeC == [start |-> TimeStr(0, 0, 22, 500), end |-> TimeStr(0, 0, 40, 0), theme |-> LabelHistory]

\* The answers to a whole transcript or a first-level chunk, and to a sub-chunk.
ChunkAnswers == {<<ThemeA>>, <<ThemeB, ThemeA>>}

SubAnswers == {<<ThemeC>>}

\* An extractor call ends with the themes, with Error('FORCE_SPLIT'), or with
\* another error (a response that stays malformed, a failed request).
Ok(res) == [out |-> "ok", res |-> res]

Failed(message) == [out |-> message, res |-> <<>>]

Outcomes(answers) == {Ok(r) : r \in answers} \cup {Failed("FORCE_SPLIT"), Failed("other")}

\* ------------------------------------------------------------------- state

VARIABLES
  srtContent,        \* the transcript read from config.srtFile
  model,             \* <<aiModel, providedProvider>>
  pc,                \* where the run of extractThemes stands
  subtitles,         \* processLargeSrt: the parsed cues
  subtitlesPerChunk, \* processLargeSrt: the cues per chunk
  offset,            \* processLargeSrt: i of the partition loop
  chunkSubtitles,    \* processLargeSrt: the slice each chunk was formatted from
  chunks,            \* processLargeSrt: the chunk texts
  chunkIndex,        \* processLargeSrt: i of the extraction loop, from 1
  allThemes,         \* processLargeSrt: the accumulated themes
  subSubtitles,      \* splitAndProcessChunk: the slice of each sub-chunk
  subChunks,         \* splitAndProcessChunk: the sub-chunk texts
  subIndex,          \* splitAndProcessChunk: i of its loop, from 1
  results,           \* splitAndProcessChunk: the accumulated themes
  themes,            \* extractThemes: the themes to write
  themesFile,        \* <<>> while config.themesFile is not written, else <<its content>>
  exitCode,          \* NoExit, or the code the process exited with
  inFlight,          \* the extractor calls sent and not answered yet
  calls,             \* history: the extractor calls answered, in order
  thrown,            \* history: <<>>, or the error that ended the run
  mInput,            \* consolidator alone: the caller's array
  mGiven,            \* history: the caller's array as it was passed
  mPc,               \* consolidator alone: where the call stands
  mIndex,            \* mergeOverlappingThemes: the loop index, from 1
  mState,            \* mergeOverlappingThemes: currentTheme and mergedThemes
  mRun,              \* history: the input spans merged into currentTheme so far
  mResult,           \* the sequence returned
  mAgain             \* the sequence returned for mResult as input

dvars == <<srtContent, model, pc, subtitles, subtitlesPerChunk, offset, chunkSubtitles,
           chunks, chunkIndex, allThemes, subSubtitles, subChunks, subIndex, results,
           themes, themesFile, exitCode, inFlight, calls, thrown>>

mvars == <<mInput, mGiven, mPc, mIndex, mState, mRun, mResult, mAgain>>

\* -------------------------------------------- state of the other functions

VARIABLES
  simTheme1,         \* areSimilarThemes: theme1
  simTheme2,         \* areSimilarThemes: theme2
  simPc,             \* "idle", "call", "returned", "merged"
  simResult,         \* what areSimilarThemes returned
  simMerged          \* mergeOverlappingThemes on two near spans with these labels

simvars == <<simTheme1, simTheme2, simPc, simResult, simMerged>>

\* combineSceneAndSilenceInfo; the times are in tenths of a second.
VARIABLES
  silences,           \* the parsed silence list
  sceneChanges,       \* parseSceneChanges(sceneInfoContent)
  padding,
  minSegmentDuration,
  videoDuration,
  segments,           \* the keep list
  lastEnd,
  silenceIndex,       \* the position of the for loop over silences, from 1
  refinedSegments,
  segmentIndex,       \* refineSegmentsWithSceneInfo: the position of its loop, from 1
  videoPc             \* "idle", "plan", "refine", "returned"

videovars == <<silences, sceneChanges, padding, minSegmentDuration, videoDuration, segments,
               lastEnd, silenceIndex, refinedSegments, segmentIndex, videoPc>>

\* parseSrt, formatSubtitlesToSrt and combineSrtFiles on their own.
VARIABLES
  srtCues,            \* history: the cues the texts were written from
  srtContents,        \* combineSrtFiles: the texts to combine; the first is also parsed
  srtRecords,         \* parseSrt(srtContents[1])
  srtFormatted,       \* formatSubtitlesToSrt(srtRecords)
  srtReparsed,        \* parseSrt(srtFormatted)
  combinedContent,    \* combineSrtFiles: the lines appended so far
  subtitleIndex,      \* combineSrtFiles
  contentIndex,       \* combineSrtFiles: the position of the for loop, from 1
  srtPc               \* "idle", "parse", "format", "reparse", "combine", "returned"

srtvars == <<srtCues, srtContents, srtRecords, srtFormatted, srtReparsed, combinedContent,
             subtitleIndex, contentIndex, srtPc>>

\* adjustSrtTimestamps on one timestamp line.
VARIABLES
  adjStart,           \* the start of the line matched, as TimeStr
  adjEnd,             \* its end
  offsetSeconds,
  adjOut,             \* <<>>, or <<start, end>> of the line written in its place
  adjPc               \* "idle", "call", "returned"

adjvars == <<adjStart, adjEnd, offsetSeconds, adjOut, adjPc>>

\* processSplitAudio; the times are in tenths of a second.
VARIABLES
  videoDurationSec,
  chunkDurationSec,
  audioChunks,        \* chunks, the number of windows
  windowIndex,        \* i of the loop, from 0
  windows,            \* history: startTime and endTime of the windows begun
  allTranscriptions,  \* the window and the offset of each transcript pushed
  outputSrt,          \* <<>> while outputSrtPath is not written, else <<its content>>
  audioThrown,        \* <<>>, or the error thrown to the caller
  audioPc             \* "idle", "plan", "window", "transcribe", "combine", "written", "thrown"

audiovars == <<videoDurationSec, chunkDurationSec, audioChunks, windowIndex, windows,
               allTranscriptions, outputSrt, audioThrown, audioPc>>

\* runAllSteps and the standard input of the process.
VARIABLES
  apiKeyGiven,        \* <<--api-key was passed, the environment variable is set>>
  runPc,              \* "idle", "start", "running", "waiting", "done", "exited"
  runStep,            \* the place in RunSteps of the call awaited, 0 before the first
  runLog,             \* history: the calls made and the "data" events that resolved a wait
  stdinTyped,         \* the number of lines the user has typed
  stdinPending,       \* the lines typed and not yet read from standard input
  stdinFlowing,       \* a 'data' listener was attached: standard input is being read
  runExit             \* NoExit, or the code of process.exit

runvars == <<apiKeyGiven, runPc, runStep, runLog, stdinTyped, stdinPending, stdinFlowing,
             runExit>>

xvars == <<simvars, videovars, srtvars, adjvars, audiovars, runvars>>

vars == <<dvars, mvars, xvars>>

\* The process has not exited.
NoExit == -1

\* ----------------------------------------------------------- extractThemes

DriverIdle ==
  /\ pc = "idle"
  /\ srtContent = <<Blank>>
  /\ model = <<"gpt-4", "openai">>
  /\ subtitles = <<>>
  /\ subtitlesPerChunk = 0
  /\ offset = 0
  /\ chunkSubtitles = <<>>
  /\ chunks = <<>>
  /\ chunkIndex = 1
  /\ allThemes = <<>>
  /\ subSubtitles = <<>>
  /\ subChunks = <<>>
  /\ subIndex = 1
  /\ results = <<>>
  /\ themes = <<>>
  /\ themesFile = <<>>
  /\ exitCode = NoExit
  /\ inFlight = <<>>
  /\ calls = <<>>
  /\ thrown = <<>>

MergeIdle ==
  /\ mInput = <<>>
  /\ mGiven = <<>>
  /\ mPc = "idle"
  /\ mIndex = 1
  /\ mState = [cur |-> <<>>, merged |-> <<>>]
  /\ mRun = <<>>
  /\ mResult = <<>>
  /\ mAgain = <<>>

SimilarIdle ==
  /\ simTheme1 = <<>>
  /\ simTheme2 = <<>>
  /\ simPc = "idle"
  /\ simResult = FALSE
  /\ simMerged = <<>>

VideoIdle ==
  /\ silences = <<>>
  /\ sceneChanges = <<>>
  /\ padding = 0
  /\ minSegmentDuration = 0
  /\ videoDuration = 0
  /\ segments = <<>>
  /\ lastEnd = 0
  /\ silenceIndex = 1
  /\ refinedSegments = <<>>
  /\ segmentIndex = 1
  /\ videoPc = "idle"

SrtIdle ==
  /\ srtCues = <<>>
  /\ srtContents = <<>>
  /\ srtRecords = <<>>
  /\ srtFormatted = <<>>
  /\ srtReparsed = <<>>
  /\ combinedContent = <<>>
  /\ subtitleIndex = 1
  /\ contentIndex = 1
  /\ srtPc = "idle"

AdjustIdle ==
  /\ adjStart = <<>>
  /\ adjEnd = <<>>
  /\ offsetSeconds = 0
  /\ adjOut = <<>>
  /\ adjPc = "idle"

AudioIdle ==
  /\ videoDurationSec = 0
  /\ chunkDurationSec = 0
  /\ audioChunks = 0
  /\ windowIndex = 0
  /\ windows = <<>>
  /\ allTranscriptions = <<>>
  /\ outputSrt = <<>>
  /\ audioThrown = <<>>
  /\ audioPc = "idle"

RunAllIdle ==
  /\ apiKeyGiven = <<FALSE, FALSE>>
  /\ runPc = "idle"
  /\ runStep = 0
  /\ runLog = <<>>
  /\ stdinTyped = 0
  /\ stdinPending = 0
  /\ stdinFlowing = FALSE
  /\ runExit = NoExit

\* The functions that are not running.
ExtraIdle == SimilarIdle /\ VideoIdle /\ SrtIdle /\ AdjustIdle /\ AudioIdle /\ RunAllIdle

\* extractThemes has read the transcript and is about to size it.
Init ==
  /\ \E input \in Inputs : srtContent = input[1] /\ model = input[2]
  /\ pc = "extractThemes"
  /\ subtitles = <<>>
  /\ subtitlesPerChunk = 0
  /\ offset = 0
  /\ chunkSubtitles = <<>>
  /\ chunks = <<>>
  /\ chunkIndex = 1
  /\ allThemes = <<>>
  /\ subSubtitles = <<>>
  /\ subChunks = <<>>
  /\ subIndex = 1
  /\ results = <<>>
  /\ themes = <<>>
  /\ themesFile = <<>>
  /\ exitCode = NoExit
  /\ inFlight = <<>>
  /\ calls = <<>>
  /\ thrown = <<>>
  /\ MergeIdle
  /\ ExtraIdle

MaxTokens == getModelMaxTokens(model[1], model[2])

\* The error reaches the catch of extractThemes: it is logged and the process
\* exits with code 1, the themes file unwritten.
Exit(message, level) ==
  /\ pc' = "exited"
  /\ exitCode' = 1
  /\ thrown' = <<[message |-> message, level |-> level]>>

\* The size test of extractThemes: one call, or processLargeSrt.
SizeTranscript ==
  /\ pc = "extractThemes"
  /\ pc' = IF estimateSrtTokens(srtContent) + promptOverhead > MaxTokens
           THEN "processLargeSrt" ELSE "single"
  /\ UNCHANGED <<srtContent, model, subtitles, subtitlesPerChunk, offset, chunkSubtitles,
                 chunks, chunkIndex, allThemes, subSubtitles, subChunks, subIndex,
                 results, themes, themesFile, exitCode, inFlight, calls, thrown>>
  /\ UNCHANGED <<mvars, xvars>>

\* extractThemesWithAI(srtContent, ...) is called.
SingleSend ==
  /\ pc = "single"
  /\ pc' = "singleWait"
  /\ inFlight' = Append(inFlight, [level |-> "single", chunk |-> 0, sub |-> 0])
  /\ UNCHANGED <<srtContent, model, subtitles, subtitlesPerChunk, offset, chunkSubtitles,
                 chunks, chunkIndex, allThemes, subSubtitles, subChunks, subIndex,
                 results, themes, themesFile, exitCode, calls, thrown>>
  /\ UNCHANGED <<mvars, xvars>>

\* Its answer: the themes, FORCE_SPLIT (processLargeSrt takes over), or an error.
SingleReceive ==
  /\ pc = "singleWait"
  /\ \E o \in Outcomes(ChunkAnswers) :
       /\ calls' = Append(calls, [level |-> "single", chunk |-> 0, sub |-> 0,
                                  out |-> o.out, res |-> o.res])
       /\ IF o.out = "ok"
          THEN pc' = "write" /\ themes' = o.res /\ UNCHANGED <<exitCode, thrown>>
          ELSE IF o.out = "FORCE_SPLIT"
          THEN pc' = "processLargeSrt" /\ UNCHANGED <<themes, exitCode, thrown>>
          ELSE Exit(o.out, "single") /\ UNCHANGED themes
  /\ inFlight' = <<>>
  /\ UNCHANGED <<srtContent, model, subtitles, subtitlesPerChunk, offset, chunkSubtitles,
                 chunks, chunkIndex, allThemes, subSubtitles, subChunks, subIndex,
                 results, themesFile>>
  /\ UNCHANGED <<mvars, xvars>>

\* writeFile(config.themesFile, JSON.stringify(themes)): the run ends well.
WriteThemes ==
  /\ pc = "write"
  /\ themesFile' = <<themes>>
  /\ pc' = "done"
  /\ exitCode' = 0
  /\ UNCHANGED <<srtContent, model, subtitles, subtitlesPerChunk, offset, chunkSubtitles,
                 chunks, chunkIndex, allThemes, subSubtitles, subChunks, subIndex,
                 results, themes, inFlight, calls, thrown>>
  /\ UNCHANGED <<mvars, xvars>>

\* ---------------------------------------------------------- processLargeSrt

\* The cues are parsed and the chunk size is computed.
PlanChunks ==
  /\ pc = "processLargeSrt"
  /\ subtitles' = parseSrt(srtContent)
  /\ subtitlesPerChunk' =
       SubtitlesPerChunk(srtContent, parseSrt(srtContent), MaxTokens - promptOverhead)
  /\ offset' = 0
  /\ pc' = "partition"
  /\ UNCHANGED <<srtContent, model, chunkSubtitles, chunks, chunkIndex, allThemes,
                 subSubtitles, subChunks, subIndex, results, themes, themesFile,
                 exitCode, inFlight, calls, thrown>>
  /\ UNCHANGED <<mvars, xvars>>

\* One turn of the partition loop.  A loop that ends cuts no more chunks than
\* there are cues, and only such turns are followed here.
PartitionStep ==
  /\ pc = "partition"
  /\ offset < Len(subtitles)
  /\ Len(chunks) < Len(subtitles)
  /\ chunkSubtitles' = Append(chunkSubtitles, Slice(subtitles, offset, subtitlesPerChunk))
  /\ chunks' = Append(chunks, formatSubtitlesToSrt(Slice(subtitles, offset, subtitlesPerChunk)))
  /\ offset' = offset + subtitlesPerChunk
  /\ UNCHANGED <<srtContent, model, pc, subtitles, subtitlesPerChunk, chunkIndex, allThemes,
                 subSubtitles, subChunks, subIndex, results, themes, themesFile,
                 exitCode, inFlight, calls, thrown>>
  /\ UNCHANGED <<mvars, xvars>>

\* The loop has cut as many chunks as there are cues and is not at the end: i
\* does not advance, and the loop pushes empty chunks for ever.
PartitionHang ==
  /\ pc = "partition"
  /\ offset < Len(subtitles)
  /\ Len(chunks) >= Len(subtitles)
  /\ pc' = "hang"
  /\ UNCHANGED <<srtContent, model, subtitles, subtitlesPerChunk, offset, chunkSubtitles,
                 chunks, chunkIndex, allThemes, subSubtitles, subChunks, subIndex,
                 results, themes, themesFile, exitCode, inFlight, calls, thrown>>
  /\ UNCHANGED <<mvars, xvars>>

\* The partition loop ends and the extraction loop starts.
PartitionEnd ==
  /\ pc = "partition"
  /\ offset >= Len(subtitles)
  /\ chunkIndex' = 1
  /\ pc' = "chunk"
  /\ UNCHANGED <<srtContent, model, subtitles, subtitlesPerChunk, offset, chunkSubtitles,
                 chunks, allThemes, subSubtitles, subChunks, subIndex, results, themes,
                 themesFile, exitCode, inFlight, calls, thrown>>
  /\ UNCHANGED <<mvars, xvars>>

\* The chunk calls started without awaiting the one before.
ChunkSendConcurrent ==
  /\ pc \in {"chunk", "chunkWait"}
  /\ chunkIndex + Len(inFlight) <= Len(chunks)
  /\ pc' = "chunkWait"
  /\ inFlight' = Append(inFlight, [level |-> "chunk", chunk |-> chunkIndex + Len(inFlight),
                                   sub |-> 0])
  /\ UNCHANGED <<srtContent, model, subtitles, subtitlesPerChunk, offset, chunkSubtitles,
                 chunks, chunkIndex, allThemes, subSubtitles, subChunks, subIndex,
                 results, themes, themesFile, exitCode, calls, thrown>>
  /\ UNCHANGED <<mvars, xvars>>

\* extractThemesWithAI(chunks[i], ...) is called.
ChunkSend ==
  /\ pc = "chunk"
  /\ chunkIndex <= Len(chunks)
  /\ pc' = "chunkWait"
  /\ inFlight' = Append(inFlight, [level |-> "chunk", chunk |-> chunkIndex, sub |-> 0])
  /\ UNCHANGED <<srtContent, model, subtitles, subtitlesPerChunk, offset, chunkSubtitles,
                 chunks, chunkIndex, allThemes, subSubtitles, subChunks, subIndex,
                 results, themes, themesFile, exitCode, calls, thrown>>
  /\ UNCHANGED <<mvars, xvars>>

\* The answer for chunks[i].  On FORCE_SPLIT for a chunk of more than 1000
\* characters splitAndProcessChunk starts: it parses the chunk text and cuts the
\* sub-chunks; with no sub-chunk it returns at once.  Any other error, and
\* FORCE_SPLIT for a shorter chunk, is thrown again.
ChunkReceive ==
  /\ pc = "chunkWait"
  /\ \E o \in Outcomes(ChunkAnswers) :
       /\ calls' = Append(calls, [level |-> "chunk", chunk |-> chunkIndex, sub |-> 0,
                                  out |-> o.out, res |-> o.res])
       /\ IF o.out = "ok"
          THEN /\ allThemes' = PushAll(allThemes, o.res)
               /\ chunkIndex' = chunkIndex + 1
               /\ pc' = "chunk"
               /\ UNCHANGED <<subSubtitles, subChunks, subIndex, results, exitCode, thrown>>
          ELSE IF SplitAgain(o.out, chunks[chunkIndex])
          THEN LET subs == parseSrt(chunks[chunkIndex])
                   slices == SubSlices(subs, 0, SubChunkSize(subs))
               IN  /\ subSubtitles' = slices
                   /\ subChunks' = [j \in 1..Len(slices) |-> formatSubtitlesToSrt(slices[j])]
                   /\ subIndex' = 1
                   /\ results' = <<>>
                   /\ IF slices = <<>>
                      THEN /\ allThemes' = PushAll(allThemes, <<>>)
                           /\ chunkIndex' = chunkIndex + 1
                           /\ pc' = "chunk"
                      ELSE /\ pc' = "sub"
                           /\ UNCHANGED <<allThemes, chunkIndex>>
                   /\ UNCHANGED <<exitCode, thrown>>
          ELSE /\ Exit(o.out, "chunk")
               /\ UNCHANGED <<allThemes, chunkIndex, subSubtitles, subChunks, subIndex, results>>
  /\ inFlight' = <<>>
  /\ UNCHANGED <<srtContent, model, subtitles, subtitlesPerChunk, offset, chunkSubtitles,
                 chunks, themes, themesFile>>
  /\ UNCHANGED <<mvars, xvars>>

\* extractThemesWithAI(subChunks[i], ...) is called.
SubSend ==
  /\ pc = "sub"
  /\ subIndex <= Len(subChunks)
  /\ pc' = "subWait"
  /\ inFlight' = Append(inFlight, [level |-> "sub", chunk |-> chunkIndex, sub |-> subIndex])
  /\ UNCHANGED <<srtContent, model, subtitles, subtitlesPerChunk, offset, chunkSubtitles,
                 chunks, chunkIndex, allThemes, subSubtitles, subChunks, subIndex,
                 results, themes, themesFile, exitCode, calls, thrown>>
  /\ UNCHANGED <<mvars, xvars>>

\* The answer for subChunks[i]: pushed, skipped on FORCE_SPLIT, thrown otherwise.
\* After the last sub-chunk splitAndProcessChunk returns results, which
\* processLargeSrt pushes to allThemes before it goes to its next chunk.
SubReceive ==
  /\ pc = "subWait"
  /\ \E o \in Outcomes(SubAnswers) :
       /\ calls' = Append(calls, [level |-> "sub", chunk |-> chunkIndex, sub |-> subIndex,
                                  out |-> o.out, res |-> o.res])
       /\ IF o.out = "ok" \/ SkipSubChunk(o.out)
          THEN LET r == IF o.out = "ok" THEN PushAll(results, o.res) ELSE results
               IN  /\ results' = r
                   /\ subIndex' = subIndex + 1
                   /\ IF subIndex + 1 > Len(subChunks)
                      THEN /\ allThemes' = PushAll(allThemes, r)
                           /\ chunkIndex' = chunkIndex + 1
                           /\ pc' = "chunk"
                      ELSE /\ pc' = "sub"
                           /\ UNCHANGED <<allThemes, chunkIndex>>
                   /\ UNCHANGED <<exitCode, thrown>>
          ELSE /\ Exit(o.out, "sub")
               /\ UNCHANGED <<allThemes, chunkIndex, subIndex, results>>
  /\ inFlight' = <<>>
  /\ UNCHANGED <<srtContent, model, subtitles, subtitlesPerChunk, offset, chunkSubtitles,
                 chunks, subSubtitles, subChunks, themes, themesFile>>
  /\ UNCHANGED <<mvars, xvars>>

\* After the last chunk: mergeOverlappingThemes(allThemes), which sorts
\* allThemes in place, and the return to extractThemes.
Consolidate ==
  /\ pc = "chunk"
  /\ chunkIndex > Len(chunks)
  /\ themes' = mergeOverlappingThemes(allThemes)
  /\ allThemes' = SortByStart(allThemes)
  /\ pc' = "write"
  /\ UNCHANGED <<srtContent, model, subtitles, subtitlesPerChunk, offset, chunkSubtitles,
                 chunks, chunkIndex, subSubtitles, subChunks, subIndex, results,
                 themesFile, exitCode, inFlight, calls, thrown>>
  /\ UNCHANGED <<mvars, xvars>>

\* --------------------------------------- mergeOverlappingThemes, step by step

\* The spans the consolidator is given: their times (seconds, milliseconds) lie
\* less than 10 s apart, exactly 10 s apart, further apart, and inside one
\* another; the milliseconds are 0 or 500, which the floats of the code hold
\* exactly.
SpanTimes == {<<0, 0, 4, 0>>, <<0, 0, 20, 0>>, <<6, 500, 8, 0>>, <<18, 0, 25, 500>>}

SpanLabels == {LabelHistoryAbout, LabelHistory, LabelCats}

Spans ==
  {[start |-> TimeStr(0, 0, t[1], t[2]), end |-> TimeStr(0, 0, t[3], t[4]), theme |-> l] :
     t \in SpanTimes, l \in SpanLabels}

InitMerge ==
  /\ DriverIdle
  /\ ExtraIdle
  /\ mInput \in UNION {[1..n -> Spans] : n \in 0..MaxSpans}
  /\ mGiven = mInput
  /\ mPc = "call"
  /\ mIndex = 1
  /\ mState = [cur |-> <<>>, merged |-> <<>>]
  /\ mRun = <<>>
  /\ mResult = <<>>
  /\ mAgain = <<>>

\* themes.sort(...): the caller's array is sorted in place.
MergeSort ==
  /\ mPc = "call"
  /\ mInput' = SortByStart(mInput)
  /\ mIndex' = 1
  /\ mState' = [cur |-> <<>>, merged |-> <<>>]
  /\ mPc' = "scan"
  /\ UNCHANGED <<mGiven, mRun, mResult, mAgain>>
  /\ UNCHANGED <<dvars, xvars>>

\* One turn of the for loop.  mRun keeps, for each theme pushed or running, the
\* input spans it was made of.
MergeScan ==
  /\ mPc = "scan"
  /\ mIndex <= Len(mInput)
  /\ mState' = MergeStep(mState, mInput[mIndex])
  /\ mRun' = IF mState.cur # <<>> /\ Len(MergeStep(mState, mInput[mIndex]).merged) = Len(mState.merged)
             THEN [mRun EXCEPT ![Len(mRun)] = Append(@, mInput[mIndex])]
             ELSE Append(mRun, <<mInput[mIndex]>>)
  /\ mIndex' = mIndex + 1
  /\ UNCHANGED <<mInput, mGiven, mPc, mResult, mAgain>>
  /\ UNCHANGED <<dvars, xvars>>

\* The loop is over: the running theme is pushed and mergedThemes returned.
MergeReturn ==
  /\ mPc = "scan"
  /\ mIndex > Len(mInput)
  /\ mResult' = MergeFinish(mState)
  /\ mPc' = "returned"
  /\ UNCHANGED <<mInput, mGiven, mIndex, mState, mRun, mAgain>>
  /\ UNCHANGED <<dvars, xvars>>

\* The caller passes the result to mergeOverlappingThemes once more.
MergeAgain ==
  /\ mPc = "returned"
  /\ mAgain' = mergeOverlappingThemes(mResult)
  /\ mPc' = "again"
  /\ UNCHANGED <<mInput, mGiven, mIndex, mState, mRun, mResult>>
  /\ UNCHANGED <<dvars, xvars>>

Next ==
  \/ SizeTranscript
  \/ SingleSend
  \/ SingleReceive
  \/ WriteThemes
  \/ PlanChunks
  \/ PartitionStep
  \/ PartitionHang
  \/ PartitionEnd
  \/ ChunkSend
  \/ ChunkReceive
  \/ SubSend
  \/ SubReceive
  \/ Consolidate

Spec == Init /\ [][Next]_vars

\* The consolidator on its own: mergeOverlappingThemes on any sequence of spans.
NextMerge ==
  \/ MergeSort
  \/ MergeScan
  \/ MergeReturn
  \/ MergeAgain

SpecMerge == InitMerge /\ [][NextMerge]_vars

\* -------------------------------------------- areSimilarThemes on its own

\* The label "".
LabelEmpty == <<>>

\* A label made of a filler phrase only.
LabelFillerOnly == << <<"nitsuite">> >>

\* The label "? !".
LabelPunctOnly == << <<"?">>, <<"!">> >>

\* Labels of four words and of five raw words, one of them a filler phrase.
LabelFuture == << <<"AI">>, <<"norekishi">>, <<"to">>, <<"mirai">> >>

LabelFutureOf == << <<"AI">>, <<"no">>, <<"mirai">>, <<"towa">>, <<"nani", "?">> >>

\* A label of three words with one word twice, and a label of two words.
LabelCatCatDog == << <<"neko">>, <<"neko">>, <<"inu">> >>

LabelCatBird == << <<"neko">>, <<"tori">> >>

SimilarLabels ==
  {LabelEmpty, LabelFillerOnly, LabelPunctOnly, LabelHistoryAbout, LabelHistory,
   LabelCats, LabelFuture, LabelFutureOf, LabelCatCatDog, LabelCatBird}

\* Two spans 1 s apart that carry the two labels.
NearSpans(theme1, theme2) ==
  <<[start |-> TimeStr(0, 0, 0, 0), end |-> TimeStr(0, 0, 5, 0), theme |-> theme1],
    [start |-> TimeStr(0, 0, 6, 0), end |-> TimeStr(0, 0, 9, 0), theme |-> theme2]>>

InitSimilar ==
  /\ DriverIdle
  /\ RunAllIdle
  /\ MergeIdle
  /\ simTheme1 \in SimilarLabels
  /\ simTheme2 \in SimilarLabels
  /\ simPc = "call"
  /\ simResult = FALSE
  /\ simMerged = <<>>
  /\ VideoIdle
  /\ SrtIdle
  /\ AdjustIdle
  /\ AudioIdle

\* areSimilarThemes(theme1, theme2) returns.
SimilarCall ==
  /\ simPc = "call"
  /\ simResult' = areSimilarThemes(simTheme1, simTheme2)
  /\ simPc' = "returned"
  /\ UNCHANGED <<simTheme1, simTheme2, simMerged>>
  /\ UNCHANGED <<dvars, mvars, videovars, srtvars, adjvars, audiovars, runvars>>

\* mergeOverlappingThemes on two near spans with the two labels.
SimilarMerge ==
  /\ simPc = "returned"
  /\ simMerged' = mergeOverlappingThemes(NearSpans(simTheme1, simTheme2))
  /\ simPc' = "merged"
  /\ UNCHANGED <<simTheme1, simTheme2, simResult>>
  /\ UNCHANGED <<dvars, mvars, videovars, srtvars, adjvars, audiovars, runvars>>

NextSimilar ==
  \/ SimilarCall
  \/ SimilarMerge

SpecSimilar == InitSimilar /\ [][NextSimilar]_vars

\* ------------------------------------------ the silence and scene planner

\* const silenceStart = Math.max(0, silence.start - padding)
SilenceStartUnpadded(silence, pad) == Max2(0, silence.start)

SilenceStart(silence, pad) == Max2(0, silence.start - pad)

\* const silenceEnd = Math.min(videoDuration, silence.end + padding)
SilenceEnd(silence, pad, duration) == Min2(duration, silence.end + pad)

\* The segment pushed whatever its length.
KeepAlways(segs, from, to, minDuration) == Append(segs, [start |-> from, end |-> to])

\* The segment pushed if it is long enough: the list after the push.
KeepIfLong(segs, from, to, minDuration) ==
  IF to - from >= minDuration THEN Append(segs, [start |-> from, end |-> to]) ELSE segs

\* The scene changes strictly inside the segment.
SegmentSceneChangesInside(segment, scenes) ==
  SelectSeq(scenes, LAMBDA time : time > segment.start /\ time < segment.end)

\* sceneChanges.filter(time => time >= segment.start && time <= segment.end)
SegmentSceneChanges(segment, scenes) ==
  SelectSeq(scenes, LAMBDA time : time >= segment.start /\ time <= segment.end)

\* lastSceneTime left where it was.
NextSceneTimeKept(lastSceneTime, sceneTime) == lastSceneTime

\* lastSceneTime = sceneTime
NextSceneTime(lastSceneTime, sceneTime) == sceneTime

\* The inner loop of refineSegmentsWithSceneInfo and the final sub-segment.
RECURSIVE SubSegments(_, _, _, _, _)
SubSegments(refined, lastSceneTime, scenes, segmentEnd, minDuration) ==
  IF scenes = <<>> THEN KeepIfLong(refined, lastSceneTime, segmentEnd, minDuration)
  ELSE SubSegments(KeepIfLong(refined, lastSceneTime, Head(scenes), minDuration),
                   NextSceneTime(lastSceneTime, Head(scenes)),
                   Tail(scenes), segmentEnd, minDuration)

\* The body of the loop of refineSegmentsWithSceneInfo for one segment.
RefineOne(refined, segment, scenes, minDuration) ==
  LET segmentSceneChanges == SegmentSceneChanges(segment, scenes)
  IN  IF Len(segmentSceneChanges) < 2
      THEN IF segment.end - segment.start >= minDuration * 2
           THEN Append(refined, segment) ELSE refined
      ELSE SubSegments(refined, segment.start, segmentSceneChanges, segment.end, minDuration)

\* The times of the inputs: multiples of half a second.
TimeGrid == {0, 5, 10, 15, 20}

\* The silence lists: sorted by start, no two overlapping, each inside the video.
SilenceLists ==
  {sl \in UNION {[1..n -> [start : TimeGrid, end : TimeGrid]] : n \in 0..MaxSilences} :
     /\ \A i \in 1..Len(sl) : sl[i].start < sl[i].end
     /\ \A i \in 1..(Len(sl) - 1) : sl[i].end <= sl[i + 1].start}

\* parseSceneChanges returns the times sorted.
SceneLists ==
  {sc \in UNION {[1..n -> TimeGrid] : n \in 0..MaxScenes} :
     \A i \in 1..(Len(sc) - 1) : sc[i] < sc[i + 1]}

\* silences 10-12 s and 40-42 s, 50 s of video, padding 1 s, minimum 0.3 s.
ExampleSilences == <<[start |-> 100, end |-> 120], [start |-> 400, end |-> 420]>>

VideoInputs ==
  {[silences |-> sl, sceneChanges |-> sc, padding |-> p, minSegmentDuration |-> d,
    videoDuration |-> 20] :
     sl \in SilenceLists, sc \in SceneLists, p \in {0, 5}, d \in {0, 3, 10}}
  \cup {[silences |-> ExampleSilences, sceneChanges |-> <<>>, padding |-> 10,
         minSegmentDuration |-> 3, videoDuration |-> 500]}

InitVideo ==
  /\ DriverIdle
  /\ RunAllIdle
  /\ MergeIdle
  /\ SimilarIdle
  /\ SrtIdle
  /\ AdjustIdle
  /\ AudioIdle
  /\ \E in \in VideoInputs :
       /\ silences = in.silences
       /\ sceneChanges = in.sceneChanges
       /\ padding = in.padding
       /\ minSegmentDuration = in.minSegmentDuration
       /\ videoDuration = in.videoDuration
  /\ segments = <<>>
  /\ lastEnd = 0
  /\ silenceIndex = 1
  /\ refinedSegments = <<>>
  /\ segmentIndex = 1
  /\ videoPc = "plan"

\* One turn of the loop over the silences.
PlanSilence ==
  /\ videoPc = "plan"
  /\ silenceIndex <= Len(silences)
  /\ LET silence == silences[silenceIndex]
     IN  /\ segments' = KeepIfLong(segments, lastEnd, SilenceStart(silence, padding),
                                   minSegmentDuration)
         /\ lastEnd' = SilenceEnd(silence, padding, videoDuration)
  /\ silenceIndex' = silenceIndex + 1
  /\ UNCHANGED <<silences, sceneChanges, padding, minSegmentDuration, videoDuration,
                 refinedSegments, segmentIndex, videoPc>>
  /\ UNCHANGED <<dvars, mvars, simvars, srtvars, adjvars, audiovars, runvars>>

\* The last segment, up to the end of the video.
PlanLast ==
  /\ videoPc = "plan"
  /\ silenceIndex > Len(silences)
  /\ segments' = KeepIfLong(segments, lastEnd, videoDuration, minSegmentDuration)
  /\ videoPc' = "refine"
  /\ UNCHANGED <<silences, sceneChanges, padding, minSegmentDuration, videoDuration,
                 lastEnd, silenceIndex, refinedSegments, segmentIndex>>
  /\ UNCHANGED <<dvars, mvars, simvars, srtvars, adjvars, audiovars, runvars>>

\* refineSegmentsWithSceneInfo: one turn of its loop over the segments.
RefineSegment ==
  /\ videoPc = "refine"
  /\ segmentIndex <= Len(segments)
  /\ refinedSegments' = RefineOne(refinedSegments, segments[segmentIndex], sceneChanges,
                                  minSegmentDuration)
  /\ segmentIndex' = segmentIndex + 1
  /\ UNCHANGED <<silences, sceneChanges, padding, minSegmentDuration, videoDuration,
                 segments, lastEnd, silenceIndex, videoPc>>
  /\ UNCHANGED <<dvars, mvars, simvars, srtvars, adjvars, audiovars, runvars>>

RefineReturn ==
  /\ videoPc = "refine"
  /\ segmentIndex > Len(segments)
  /\ videoPc' = "returned"
  /\ UNCHANGED <<silences, sceneChanges, padding, minSegmentDuration, videoDuration,
                 segments, lastEnd, silenceIndex, refinedSegments, segmentIndex>>
  /\ UNCHANGED <<dvars, mvars, simvars, srtvars, adjvars, audiovars, runvars>>

NextVideo ==
  \/ PlanSilence
  \/ PlanLast
  \/ RefineSegment
  \/ RefineReturn

SpecVideo == InitVideo /\ [][NextVideo]_vars

\* ------------------------------------------------ the subtitle functions

\* String.trim() on a text: the empty lines at both ends go (no line here has
\* blanks of its own); the text "" is the one line "".
RECURSIVE TrimStart(_)
TrimStart(lines) ==
  IF lines # <<>> /\ IsBlank(Head(lines)) THEN TrimStart(Tail(lines)) ELSE lines

RECURSIVE TrimEnd(_)
TrimEnd(lines) ==
  IF lines # <<>> /\ IsBlank(lines[Len(lines)])
  THEN TrimEnd(SubSeq(lines, 1, Len(lines) - 1)) ELSE lines

Trim(lines) == IF TrimEnd(TrimStart(lines)) = <<>> THEN <<Blank>> ELSE TrimEnd(TrimStart(lines))

\* The index after the text lines that start at i in combineSrtFiles: the text
\* runs up to a blank line, a digits-only line or a timestamp line.
RECURSIVE CombineTextEnd(_, _)
CombineTextEnd(lines, i) ==
  IF i <= Len(lines) /\ ~IsBlank(lines[i]) /\ ~IsDigits(lines[i]) /\ ~TsMatch(lines[i])
  THEN CombineTextEnd(lines, i + 1)
  ELSE i

\* The index line always 1.
EntryIndexOne(index) == 1

\* `${subtitleIndex}`
EntryIndex(index) == index

\* The while loop of combineSrtFiles over the lines of one text: st.out is the
\* lines of combinedContent before its last "\n", st.index is subtitleIndex.
RECURSIVE CombineFrom(_, _, _)
CombineFrom(lines, i, st) ==
  IF i > Len(lines) THEN st
  ELSE IF IsBlank(lines[i]) \/ IsDigits(lines[i]) THEN CombineFrom(lines, i + 1, st)
  ELSE IF TsMatch(lines[i])
       THEN LET t == CombineTextEnd(lines, i + 1)
            IN  CombineFrom(lines, t,
                            [out   |-> st.out \o <<NumLine(EntryIndex(st.index)), lines[i]>>
                                       \o SubSeq(lines, i + 1, t - 1) \o <<Blank>>,
                             index |-> st.index + 1])
       ELSE CombineFrom(lines, i + 1, st)

\* A cue of the inputs: its index number and its place p in the whole input;
\* the times follow from the place, and the text is of two lines at the odd
\* places, of one line at the even ones.
CueLines(cue) ==
  <<NumLine(cue.id), TsLine(10 * cue.p, 10 * cue.p + 8)>>
  \o (IF cue.p % 2 = 1 THEN <<TextLine(NaN, 30 + cue.p, 5), TextLine(NaN, 12, 2)>>
      ELSE <<TextLine(NaN, 30 + cue.p, 5)>>)
  \o <<Blank>>

\* The text of a subtitle file with these cues; without a cue it is "".
FileLines(cues) ==
  IF cues = <<>> THEN <<Blank>> ELSE Flatten([j \in 1..Len(cues) |-> CueLines(cues[j])])

\* The index numbers the cues may carry.
CueIds == {1, 7}

\* The cue lists of file f: up to MaxCues cues at the places 10 (f - 1) + 1, ...,
\* with any index numbers.
CuesOfFile(f, n) ==
  {[j \in 1..n |-> [id |-> ids[j], p |-> 10 * (f - 1) + j]] : ids \in [1..n -> CueIds]}

CueLists(f) == UNION {CuesOfFile(f, n) : n \in 0..MaxCues}

\* The lists of k files.
RECURSIVE FileLists(_)
FileLists(k) ==
  IF k = 0 THEN {<<>>}
  ELSE {Append(files, cues) : files \in FileLists(k - 1), cues \in CueLists(k)}

SrtInputs == UNION {FileLists(k) : k \in 1..MaxFiles}

InitSrt ==
  /\ DriverIdle
  /\ RunAllIdle
  /\ MergeIdle
  /\ SimilarIdle
  /\ VideoIdle
  /\ AdjustIdle
  /\ AudioIdle
  /\ srtCues \in SrtInputs
  /\ srtContents = [f \in 1..Len(srtCues) |-> FileLines(srtCues[f])]
  /\ srtRecords = <<>>
  /\ srtFormatted = <<>>
  /\ srtReparsed = <<>>
  /\ combinedContent = <<>>
  /\ subtitleIndex = 1
  /\ contentIndex = 1
  /\ srtPc = "parse"

\* parseSrt on the first text.
ParseSrt ==
  /\ srtPc = "parse"
  /\ srtRecords' = parseSrt(srtContents[1])
  /\ srtPc' = "format"
  /\ UNCHANGED <<srtCues, srtContents, srtFormatted, srtReparsed, combinedContent,
                 subtitleIndex, contentIndex>>
  /\ UNCHANGED <<dvars, mvars, simvars, videovars, adjvars, audiovars, runvars>>

\* formatSubtitlesToSrt on the records.
FormatSrt ==
  /\ srtPc = "format"
  /\ srtFormatted' = formatSubtitlesToSrt(srtRecords)
  /\ srtPc' = "reparse"
  /\ UNCHANGED <<srtCues, srtContents, srtRecords, srtReparsed, combinedContent,
                 subtitleIndex, contentIndex>>
  /\ UNCHANGED <<dvars, mvars, simvars, videovars, adjvars, audiovars, runvars>>

\* parseSrt on the formatted text.
ReparseSrt ==
  /\ srtPc = "reparse"
  /\ srtReparsed' = parseSrt(srtFormatted)
  /\ srtPc' = "combine"
  /\ UNCHANGED <<srtCues, srtContents, srtRecords, srtFormatted, combinedContent,
                 subtitleIndex, contentIndex>>
  /\ UNCHANGED <<dvars, mvars, simvars, videovars, adjvars, audiovars, runvars>>

\* combineSrtFiles: one turn of the loop over the texts.
CombineContent ==
  /\ srtPc = "combine"
  /\ contentIndex <= Len(srtContents)
  /\ LET st == CombineFrom(srtContents[contentIndex], 1,
                           [out |-> combinedContent, index |-> subtitleIndex])
     IN  /\ combinedContent' = st.out
         /\ subtitleIndex' = st.index
  /\ contentIndex' = contentIndex + 1
  /\ UNCHANGED <<srtCues, srtContents, srtRecords, srtFormatted, srtReparsed, srtPc>>
  /\ UNCHANGED <<dvars, mvars, simvars, videovars, adjvars, audiovars, runvars>>

\* return combinedContent.trim()
CombineReturn ==
  /\ srtPc = "combine"
  /\ contentIndex > Len(srtContents)
  /\ combinedContent' = Trim(combinedContent)
  /\ srtPc' = "returned"
  /\ UNCHANGED <<srtCues, srtContents, srtRecords, srtFormatted, srtReparsed,
                 subtitleIndex, contentIndex>>
  /\ UNCHANGED <<dvars, mvars, simvars, videovars, adjvars, audiovars, runvars>>

NextSrt ==
  \/ ParseSrt
  \/ FormatSrt
  \/ ReparseSrt
  \/ CombineContent
  \/ CombineReturn

SpecSrt == InitSrt /\ [][NextSrt]_vars

\* ------------------------------------------------------ double arithmetic

\* The numbers of adjustSrtTimestamps are IEEE 754 doubles.  A number is kept
\* as [m, e]: m its digits in base 2, the first digit first, and e the power
\* of two the digits are scaled by; a double has at most 53 digits from its
\* first 1 to its last 1.

\* The number of binary digits a double keeps.
DoubleDigits == 53

RECURSIVE NatBits(_)
NatBits(n) == IF n = 0 THEN <<>> ELSE Append(NatBits(n \div 2), n % 2)

RECURSIVE BitsNat(_)
BitsNat(bits) ==
  IF bits = <<>> THEN 0 ELSE 2 * BitsNat(SubSeq(bits, 1, Len(bits) - 1)) + bits[Len(bits)]

Zeros(k) == [i \in 1..k |-> 0]

\* The digits without the zeros in front.
Norm(bits) ==
  IF \A i \in 1..Len(bits) : bits[i] = 0 THEN <<>>
  ELSE LET first == CHOOSE i \in 1..Len(bits) :
                      bits[i] = 1 /\ \A j \in 1..(i - 1) : bits[j] = 0
       IN  SubSeq(bits, first, Len(bits))

\* bits + 1
Inc(bits) ==
  IF \A i \in 1..Len(bits) : bits[i] = 1 THEN <<1>> \o Zeros(Len(bits))
  ELSE LET last == CHOOSE i \in 1..Len(bits) :
                     bits[i] = 0 /\ \A j \in (i + 1)..Len(bits) : bits[j] = 1
       IN  SubSeq(bits, 1, last - 1) \o <<1>> \o Zeros(Len(bits) - last)

\* Long numbers are multiplied and divided ten binary digits at a time.
LimbDigits == 10

LimbBase == 2 ^ LimbDigits

BitsToLimbs(bits) ==
  LET n == CeilDiv(Len(bits), LimbDigits)
      padded == Zeros(n * LimbDigits - Len(bits)) \o bits
  IN  [j \in 1..n |-> BitsNat(SubSeq(padded, LimbDigits * (j - 1) + 1, LimbDigits * j))]

LimbsToBits(limbs) ==
  [i \in 1..(LimbDigits * Len(limbs)) |->
     (limbs[(i - 1) \div LimbDigits + 1] \div (2 ^ (LimbDigits - 1 - ((i - 1) % LimbDigits)))) % 2]

RECURSIVE MulLimbs(_, _, _)
MulLimbs(limbs, c, carry) ==
  IF limbs = <<>> THEN <<carry>>
  ELSE LET v == limbs[Len(limbs)] * c + carry
       IN  Append(MulLimbs(SubSeq(limbs, 1, Len(limbs) - 1), c, v \div LimbBase), v % LimbBase)

RECURSIVE DivLimbs(_, _, _, _)
DivLimbs(limbs, d, q, r) ==
  IF limbs = <<>> THEN [q |-> q, r |-> r]
  ELSE LET v == LimbBase * r + Head(limbs)
       IN  DivLimbs(Tail(limbs), d, Append(q, v \div d), v % d)

\* bits * c for a c below LimbBase.
MulSmall(bits, c) == LimbsToBits(MulLimbs(BitsToLimbs(bits), c, 0))

\* bits / d for a d below LimbBase: the quotient and the remainder.
DivSmall(bits, d) ==
  LET res == DivLimbs(BitsToLimbs(bits), d, <<>>, 0)
  IN  [q |-> LimbsToBits(res.q), r |-> res.r]

\* Round to nearest, ties to even: the double nearest to (bits + a part below
\* the last digit that is zero or, if sticky, between 0 and 1) * 2^e.
RoundToDouble(bits, e, sticky) ==
  LET b == Norm(bits)
      drop == Len(b) - DoubleDigits
  IN  IF drop <= 0 THEN [m |-> b, e |-> e]
      ELSE LET keep == SubSeq(b, 1, DoubleDigits)
               guard == b[DoubleDigits + 1]
               rest == sticky \/ \E i \in (DoubleDigits + 2)..Len(b) : b[i] = 1
               up == guard = 1 /\ (rest \/ keep[DoubleDigits] = 1)
           IN  [m |-> IF up THEN Inc(keep) ELSE keep, e |-> e + drop]

\* The digits of x before the point, as a number, and those after the point.
IntPart(x) ==
  IF x.e >= 0 THEN BitsNat(x.m \o Zeros(x.e))
  ELSE IF Len(x.m) + x.e <= 0 THEN 0 ELSE BitsNat(SubSeq(x.m, 1, Len(x.m) + x.e))

FracBits(x) ==
  IF x.e >= 0 THEN <<>>
  ELSE IF Len(x.m) + x.e <= 0 THEN Zeros(-x.e - Len(x.m)) \o x.m
  ELSE SubSeq(x.m, Len(x.m) + x.e + 1, Len(x.m))

\* n / 1000 for an integer 0 <= n < 1000.
DivideBy1000(n) ==
  IF n = 0 THEN [m |-> <<>>, e |-> 0]
  ELSE LET d == DivSmall(NatBits(n) \o Zeros(70), 1000)
       IN  RoundToDouble(d.q, -70, d.r # 0)

\* n + x for an integer n >= 0 and a double x >= 0 with no digit above 2^52.
AddInteger(n, x) ==
  IF x.e >= 0 THEN RoundToDouble(NatBits(n + IntPart(x)), 0, FALSE)
  ELSE RoundToDouble(NatBits(n + IntPart(x)) \o FracBits(x), x.e, FALSE)

\* time % 1: the part after the point (the remainder is exact).
FractionOf(x) == [m |-> Norm(FracBits(x)), e |-> IF x.e >= 0 THEN 0 ELSE x.e]

\* x * 1000
Times1000(x) == RoundToDouble(MulSmall(x.m, 1000), x.e, FALSE)

\* Math.floor(x)
Floor(x) == IntPart(x)

\* ------------------------------------------------------ adjustSrtTimestamps

\* parseInt(sh) * 3600 + parseInt(sm) * 60 + parseInt(ss) + parseInt(sms) / 1000,
\* then += offsetSeconds (a whole number of seconds here).
AdjustedTime(timeStr, offsetSec) ==
  AddInteger(offsetSec,
             AddInteger(timeStr.h * 3600 + timeStr.m * 60 + timeStr.s,
                        DivideBy1000(timeStr.ms)))

\* formatTimestamp(time).  time / 3600 and (time % 3600) / 60 are rounded, but
\* never up to the next whole number, the part of time after the point being
\* at most 0.999: their floors are those of the whole seconds.
FormatTimestamp(time) ==
  TimeStr(IntPart(time) \div 3600,
          (IntPart(time) % 3600) \div 60,
          IntPart(time) % 60,
          Floor(Times1000(FractionOf(time))))

\* The well-formed times of the inputs.
AdjustTimes ==
  {TimeStr(h, m, sec, ms) : h \in {0, 99}, m \in {0, 59}, sec \in {0, 1, 59},
                            ms \in {0, 1, 500, 999}}

\* The offsets: none, and that of the second 10-minute window.
AdjustOffsets == {0, 600}

InitAdjust ==
  /\ DriverIdle
  /\ RunAllIdle
  /\ MergeIdle
  /\ SimilarIdle
  /\ VideoIdle
  /\ SrtIdle
  /\ AudioIdle
  /\ adjStart \in AdjustTimes
  /\ adjEnd \in AdjustTimes
  /\ offsetSeconds \in AdjustOffsets
  /\ adjOut = <<>>
  /\ adjPc = "call"

\* The replace callback on the one line matched.
AdjustLine ==
  /\ adjPc = "call"
  /\ adjOut' = <<FormatTimestamp(AdjustedTime(adjStart, offsetSeconds)),
                 FormatTimestamp(AdjustedTime(adjEnd, offsetSeconds))>>
  /\ adjPc' = "returned"
  /\ UNCHANGED <<adjStart, adjEnd, offsetSeconds>>
  /\ UNCHANGED <<dvars, mvars, simvars, videovars, srtvars, audiovars, runvars>>

NextAdjust == AdjustLine

SpecAdjust == InitAdjust /\ [][NextAdjust]_vars

\* -------------------------------------------------------- processSplitAudio

\* const startTime = i * chunkDurationSec
WindowStart(i, chunkDuration) == i * chunkDuration

\* The end not clipped to the duration of the video.
WindowEndUnclipped(i, chunkDuration, duration) == (i + 1) * chunkDuration

\* const endTime = Math.min((i + 1) * chunkDurationSec, videoDurationSec)
WindowEnd(i, chunkDuration, duration) == Min2((i + 1) * chunkDuration, duration)

\* The window length: the default of 10 minutes, and 3 s.
ChunkDurations == {6000, 30}

\* The durations of the video for a window length: up to MaxWindows windows,
\* the last one a tenth of a second long, half a window, a tenth short of a
\* window, or a whole window.
AudioDurations(chunkDuration) ==
  {k * chunkDuration + r : k \in 0..(MaxWindows - 1),
                           r \in {1, chunkDuration \div 2, chunkDuration - 1, chunkDuration}}

InitAudio ==
  /\ DriverIdle
  /\ RunAllIdle
  /\ MergeIdle
  /\ SimilarIdle
  /\ VideoIdle
  /\ SrtIdle
  /\ AdjustIdle
  /\ chunkDurationSec \in ChunkDurations
  /\ videoDurationSec \in AudioDurations(chunkDurationSec)
  /\ audioChunks = 0
  /\ windowIndex = 0
  /\ windows = <<>>
  /\ allTranscriptions = <<>>
  /\ outputSrt = <<>>
  /\ audioThrown = <<>>
  /\ audioPc = "plan"

\* const chunks = Math.ceil(videoDurationSec / chunkDurationSec)
PlanWindows ==
  /\ audioPc = "plan"
  /\ audioChunks' = CeilDiv(videoDurationSec, chunkDurationSec)
  /\ windowIndex' = 0
  /\ audioPc' = "window"
  /\ UNCHANGED <<videoDurationSec, chunkDurationSec, windows, allTranscriptions, outputSrt,
                 audioThrown>>
  /\ UNCHANGED <<dvars, mvars, simvars, videovars, srtvars, adjvars, runvars>>

\* The messages of the errors of the loop body: ffmpeg closed with a code
\* other than 0, the transcription request was answered with an error.
FfmpegFailed == "FFmpeg ga shuuryou koodo 1 de shippai shimashita: "

WhisperFailed == "Whisper API eraa: "

\* The new message without the message of the error caught.
WrapMessageOnly(message) == <<"bunkatsu shori chuu ni eraa ga hassei shimashita: ">>

\* `...: ${(error as Error).message}`: the parts of the new message.
WrapMessage(message) == <<"bunkatsu shori chuu ni eraa ga hassei shimashita: ", message>>

\* The catch of processSplitAudio: a new error is thrown to the caller.
AudioThrow(message) ==
  /\ audioPc' = "thrown"
  /\ audioThrown' = <<WrapMessage(message)>>

\* The loop takes window i: ffmpeg cuts its audio out, and ends with code 0 or not.
ExtractWindow ==
  /\ audioPc = "window"
  /\ windowIndex < audioChunks
  /\ windows' = Append(windows,
                       [start |-> WindowStart(windowIndex, chunkDurationSec),
                        end   |-> WindowEnd(windowIndex, chunkDurationSec, videoDurationSec)])
  /\ \E code \in {0, 1} :
       IF code = 0
       THEN audioPc' = "transcribe" /\ UNCHANGED audioThrown
       ELSE AudioThrow(FfmpegFailed)
  /\ UNCHANGED <<videoDurationSec, chunkDurationSec, audioChunks, windowIndex,
                 allTranscriptions, outputSrt>>
  /\ UNCHANGED <<dvars, mvars, simvars, videovars, srtvars, adjvars, runvars>>

\* The transcription request of window i is answered: its text is shifted by
\* startTime and pushed, or the request failed.
TranscribeWindow ==
  /\ audioPc = "transcribe"
  /\ \E ok \in BOOLEAN :
       IF ok
       THEN /\ allTranscriptions' =
                 Append(allTranscriptions,
                        [window |-> windowIndex,
                         offset |-> WindowStart(windowIndex, chunkDurationSec)])
            /\ windowIndex' = windowIndex + 1
            /\ audioPc' = "window"
            /\ UNCHANGED audioThrown
       ELSE /\ AudioThrow(WhisperFailed)
            /\ UNCHANGED <<allTranscriptions, windowIndex>>
  /\ UNCHANGED <<videoDurationSec, chunkDurationSec, audioChunks, windows, outputSrt>>
  /\ UNCHANGED <<dvars, mvars, simvars, videovars, srtvars, adjvars, runvars>>

\* After the loop: the transcripts are combined and written.
WriteCombined ==
  /\ audioPc = "window"
  /\ windowIndex >= audioChunks
  /\ outputSrt' = <<allTranscriptions>>
  /\ audioPc' = "written"
  /\ UNCHANGED <<videoDurationSec, chunkDurationSec, audioChunks, windowIndex, windows,
                 allTranscriptions, audioThrown>>
  /\ UNCHANGED <<dvars, mvars, simvars, videovars, srtvars, adjvars, runvars>>

NextAudio ==
  \/ PlanWindows
  \/ ExtractWindow
  \/ TranscribeWindow
  \/ WriteCombined

SpecAudio == InitAudio /\ [][NextAudio]_vars

\* ---------------------------------------------------------------- run-all

\* The calls runAllSteps awaits, in the order of its statements.
RunSteps ==
  <<"initProject", "processSilentCut", "extractSubtitles", "openSubtitlesEditor",
    "waitForUserConfirmation", "extractThemes", "openThemesEditor",
    "waitForUserConfirmation", "createFinalVideo", "loadConfig">>

\* No call waits for the user.
IsWaitNever(step) == FALSE

\* The call resolves only in the 'data' listener of standard input.
IsWait(step) == step = "waitForUserConfirmation"

\* The catch of runAllSteps: process.exit(1).
RunExit ==
  /\ runPc' = "exited"
  /\ runExit' = 1
  /\ UNCHANGED <<runStep, stdinFlowing>>

\* The call at place k is made; waitForUserConfirmation attaches its listener.
Begin(k, log) ==
  /\ runStep' = k
  /\ runLog' = Append(log, RunSteps[k])
  /\ runPc' = IF IsWait(RunSteps[k]) THEN "waiting" ELSE "running"
  /\ stdinFlowing' = (stdinFlowing \/ IsWait(RunSteps[k]))
  /\ UNCHANGED runExit

\* The call awaited has resolved: the next statement, or the return.
Advance(log) ==
  IF runStep < Len(RunSteps)
  THEN Begin(runStep + 1, log)
  ELSE /\ runPc' = "done"
       /\ runLog' = log
       /\ UNCHANGED <<runStep, stdinFlowing, runExit>>

InitRunAll ==
  /\ DriverIdle
  /\ MergeIdle
  /\ SimilarIdle
  /\ VideoIdle
  /\ SrtIdle
  /\ AdjustIdle
  /\ AudioIdle
  /\ apiKeyGiven \in BOOLEAN \X BOOLEAN
  /\ runPc = "start"
  /\ runStep = 0
  /\ runLog = <<>>
  /\ stdinTyped = 0
  /\ stdinPending = 0
  /\ stdinFlowing = FALSE
  /\ runExit = NoExit

\* apiKey = apiKey || process.env[apiKeyEnvVar]; without a key an error is
\* thrown, with one initProject is called.
RunStart ==
  /\ runPc = "start"
  /\ IF apiKeyGiven[1] \/ apiKeyGiven[2]
     THEN Begin(1, runLog)
     ELSE RunExit /\ UNCHANGED runLog
  /\ UNCHANGED <<apiKeyGiven, stdinTyped, stdinPending>>
  /\ UNCHANGED <<dvars, mvars, simvars, videovars, srtvars, adjvars, audiovars>>

\* The call awaited resolves.
StepResolves ==
  /\ runPc = "running"
  /\ Advance(runLog)
  /\ UNCHANGED <<apiKeyGiven, stdinTyped, stdinPending>>
  /\ UNCHANGED <<dvars, mvars, simvars, videovars, srtvars, adjvars, audiovars>>

\* The call awaited rejects: the catch ends the process.
StepRejects ==
  /\ runPc = "running"
  /\ RunExit
  /\ UNCHANGED <<apiKeyGiven, runLog, stdinTyped, stdinPending>>
  /\ UNCHANGED <<dvars, mvars, simvars, videovars, srtvars, adjvars, audiovars>>

\* The user types a line, at any time while the process runs.
KeyPressed ==
  /\ runPc \in {"start", "running", "waiting"}
  /\ stdinTyped < MaxKeys
  /\ stdinTyped' = stdinTyped + 1
  /\ stdinPending' = stdinPending + 1
  /\ UNCHANGED <<apiKeyGiven, runPc, runStep, runLog, stdinFlowing, runExit>>
  /\ UNCHANGED <<dvars, mvars, simvars, videovars, srtvars, adjvars, audiovars>>

\* process.stdin.once('data', () => resolve()): a line is read while the
\* listener is attached, and the wait resolves.
DataToListener ==
  /\ runPc = "waiting"
  /\ stdinPending > 0
  /\ stdinPending' = stdinPending - 1
  /\ Advance(Append(runLog, "data"))
  /\ UNCHANGED <<apiKeyGiven, stdinTyped>>
  /\ UNCHANGED <<dvars, mvars, simvars, videovars, srtvars, adjvars, audiovars>>

\* A line is read while no listener is attached, after the first wait: the
\* stream may emit it to nobody, or keep it for the next listener.
DataDropped ==
  /\ runPc = "running"
  /\ stdinFlowing
  /\ stdinPending > 0
  /\ stdinPending' = stdinPending - 1
  /\ UNCHANGED <<apiKeyGiven, runPc, runStep, runLog, stdinTyped, stdinFlowing, runExit>>
  /\ UNCHANGED <<dvars, mvars, simvars, videovars, srtvars, adjvars, audiovars>>

NextRunAll ==
  \/ RunStart
  \/ StepResolves
  \/ StepRejects
  \/ KeyPressed
  \/ DataToListener
  \/ DataDropped

SpecRunAll == InitRunAll /\ [][NextRunAll]_vars

\* ------------------------------------------------------------------ history

Last(seq) == seq[Len(seq)]

IsPrefix(a, b) == Len(a) <= Len(b) /\ SubSeq(b, 1, Len(a)) = a

\* The answered calls for the sub-chunks of chunk c, in the order of the calls.
SubCallsOf(c) == SelectSeq(calls, LAMBDA e : e.level = "sub" /\ e.chunk = c)

\* The answered call for chunk c itself.
ChunkCallOf(c) == CHOOSE e \in {calls[i] : i \in 1..Len(calls)} : e.level = "chunk" /\ e.chunk = c

\* The answered call for sub-chunk j of chunk c.
SubCallOf(c, j) ==
  CHOOSE e \in {calls[i] : i \in 1..Len(calls)} : e.level = "sub" /\ e.chunk = c /\ e.sub = j

\* What chunk c gives to the accumulated themes: its own answer, or after
\* FORCE_SPLIT the answers of its sub-chunks 1, 2, ... (nothing for a skipped one).
Contribution(c) ==
  IF ChunkCallOf(c).out = "ok" THEN ChunkCallOf(c).res
  ELSE Flatten([j \in 1..Len(SubCallsOf(c)) |-> SubCallOf(c, j).res])

\* processLargeSrt is in its extraction loop.
Extracting == pc \in {"chunk", "chunkWait", "sub", "subWait"}

\* ------------------------------------------------------------------ claims

\* C1: a FORCE_SPLIT answer for a first-level chunk never ends the run, whatever
\* the size of the chunk: no run exits on the FORCE_SPLIT of a first-level chunk.
C1_ForceSplitNeverAborts ==
  thrown # <<>> => ~(thrown[1].message = "FORCE_SPLIT" /\ thrown[1].level = "chunk")

\* C2: after FORCE_SPLIT for a chunk of n cues, the sub-chunks are those n cues
\* cut into runs of max(5, ceil(n/4)), each formatted and sent once, in order.
C2_SubChunksCoverFailedChunk ==
  /\ (/\ calls # <<>>
      /\ Last(calls).level = "chunk"
      /\ Last(calls).out = "FORCE_SPLIT"
      /\ pc # "exited")
     => LET cues == chunkSubtitles[Last(calls).chunk]
        IN  /\ subSubtitles = SubSlices(cues, 0, Max2(5, CeilDiv(Len(cues), 4)))
            /\ subChunks = [j \in 1..Len(subSubtitles) |-> formatSubtitlesToSrt(subSubtitles[j])]
  /\ \A c \in 1..Len(chunks) :
       \A i \in 1..Len(SubCallsOf(c)) : SubCallsOf(c)[i].sub = i

\* C3: FORCE_SPLIT for a sub-chunk is never thrown on: the sub-chunk is skipped
\* (results unchanged), the loop goes to the next sub-chunk or, after the last
\* one, hands results to processLargeSrt, which goes to its next chunk; no run
\* exits on the FORCE_SPLIT of a sub-chunk.
C3_SkipStep ==
  (pc = "subWait" /\ calls' # calls /\ Last(calls').out = "FORCE_SPLIT")
  => /\ exitCode' = NoExit
     /\ thrown' = <<>>
     /\ results' = results
     /\ subIndex' = subIndex + 1
     /\ IF subIndex < Len(subChunks)
        THEN pc' = "sub" /\ allThemes' = allThemes /\ chunkIndex' = chunkIndex
        ELSE pc' = "chunk" /\ allThemes' = allThemes \o results /\ chunkIndex' = chunkIndex + 1

C3_SubChunkForceSplitSkipped ==
  /\ [](thrown # <<>> => ~(thrown[1].message = "FORCE_SPLIT" /\ thrown[1].level = "sub"))
  /\ [][C3_SkipStep]_vars

\* A run that skipped a sub-chunk, extracted a later sub-chunk and a later
\* chunk, and ended with the themes file written.
C3_Witness ==
  /\ pc = "done"
  /\ \E i \in 1..Len(calls) :
       /\ calls[i].level = "sub" /\ calls[i].out = "FORCE_SPLIT"
       /\ \E j \in (i + 1)..Len(calls) :
            calls[j].level = "sub" /\ calls[j].chunk = calls[i].chunk /\ calls[j].out = "ok"
       /\ \E j \in (i + 1)..Len(calls) :
            calls[j].level = "chunk" /\ calls[j].out = "ok"

\* C4: an extractor error other than FORCE_SPLIT, at any level, ends the run:
\* the failed call is the last call, no call is in flight, the process exited
\* with code 1 on that error and the themes file is not written.
C4_OtherErrorIsFatal ==
  \A i \in 1..Len(calls) :
    calls[i].out = "other"
    => /\ i = Len(calls)
       /\ pc = "exited"
       /\ exitCode = 1
       /\ thrown = <<[message |-> "other", level |-> calls[i].level]>>
       /\ inFlight = <<>>
       /\ themesFile = <<>>

\* A sub-chunk failed with another error after an earlier sub-chunk was
\* answered and while a chunk was left.
C4_Witness ==
  /\ calls # <<>>
  /\ Last(calls).out = "other"
  /\ Last(calls).level = "sub"
  /\ results # <<>>
  /\ chunkIndex < Len(chunks)

\* C5: throughout the extraction loop allThemes is the concatenation, in chunk
\* order, of what each finished chunk gave (its answer, or its sub-chunks'
\* answers in sub-chunk order, nothing for a skipped one); and until the
\* consolidation a step only appends to allThemes.
C5_Accumulated ==
  Extracting => allThemes = Flatten([c \in 1..(chunkIndex - 1) |-> Contribution(c)])

C5_OnlyAppended ==
  (Extracting /\ pc' # "write") => IsPrefix(allThemes, allThemes')

C5_ResultsInChunkOrder == []C5_Accumulated /\ [][C5_OnlyAppended]_vars

\* All chunks are done, consolidation is next: a chunk answered, another was
\* split, one of its sub-chunks skipped and one answered.
C5_Witness ==
  /\ pc = "chunk"
  /\ chunkIndex > Len(chunks)
  /\ \E i, j, k \in 1..Len(calls) :
       /\ calls[i].level = "sub" /\ calls[i].out = "FORCE_SPLIT"
       /\ calls[j].level = "sub" /\ calls[j].out = "ok" /\ calls[j].chunk = calls[i].chunk
       /\ calls[k].level = "chunk" /\ calls[k].out = "ok" /\ Len(calls[k].res) = 2

\* C6: for a non-empty cue list the cues-per-chunk count is at least 1 and the
\* partition loop ends.
C6_ChunkSizeAtLeastOne ==
  (subtitles # <<>> /\ pc \notin {"extractThemes", "single", "singleWait", "processLargeSrt"})
  => subtitlesPerChunk >= 1 /\ pc # "hang"

\* C7: for a non-empty cue list, once the partition loop has stopped cutting,
\* the chunks are runs of 1 to subtitlesPerChunk cues that concatenate to the
\* cue list, each chunk text being the formatted run.
C7_ChunksPartitionCues ==
  (subtitles # <<>>
   /\ pc \notin {"extractThemes", "single", "singleWait", "processLargeSrt", "partition"})
  => /\ Flatten(chunkSubtitles) = subtitles
     /\ \A c \in 1..Len(chunks) :
          /\ Len(chunkSubtitles[c]) <= subtitlesPerChunk
          /\ chunks[c] = formatSubtitlesToSrt(chunkSubtitles[c])

\* C8: mergeOverlappingThemes applied to its own result returns that result,
\* span for span (and the loop followed step by step returns what the function
\* returns for the array as it was passed).
C8_MergeIdempotent ==
  /\ mPc \in {"returned", "again"} => mResult = mergeOverlappingThemes(mGiven)
  /\ mPc = "again" => mAgain = mResult

\* Spans passed out of order, some merged and several left, merged once more.
C8_Witness ==
  /\ mPc = "again"
  /\ mInput # mGiven
  /\ Len(mResult) >= 2
  /\ Len(mResult) < Len(mGiven)

\* C9: the returned spans are in non-decreasing order of start, whatever the
\* order of the spans passed.
C9_OutputOrderedByStart ==
  mPc \in {"returned", "again"}
  => \A i, j \in 1..Len(mResult) :
       i < j => timeToSeconds(mResult[i].start) <= timeToSeconds(mResult[j].start)

\* Spans passed with a later start before an earlier one, several returned.
C9_Witness ==
  /\ mPc = "returned"
  /\ Len(mResult) >= 2
  /\ \E i, j \in 1..Len(mGiven) :
       i < j /\ timeToSeconds(mGiven[i].start) > timeToSeconds(mGiven[j].start)

\* C10: the end of the running span never decreases while spans are merged
\* into it, and the end of every span pushed or running is at least the end of
\* every input span merged into it.
C10_EndCoversRun ==
  LET out == mState.merged \o mState.cur
  IN  /\ Len(mRun) = Len(out)
      /\ \A k \in 1..Len(out) :
           \A i \in 1..Len(mRun[k]) :
             timeToSeconds(out[k].end) >= timeToSeconds(mRun[k][i].end)

C10_EndStep ==
  (mState.cur # <<>> /\ mState'.cur # <<>> /\ mState'.merged = mState.merged)
  => timeToSeconds(mState'.cur[1].end) >= timeToSeconds(mState.cur[1].end)

C10_EndNeverDecreases == []C10_EndCoversRun /\ [][C10_EndStep]_vars

\* A span that ends before the running span ends was merged into it.
C10_Witness ==
  /\ mPc = "returned"
  /\ \E k \in 1..Len(mRun) :
       \E i, j \in 1..Len(mRun[k]) :
         i < j /\ timeToSeconds(mRun[k][j].end) < timeToSeconds(mRun[k][i].end)

\* The label normalises to no token: every raw word is emptied by normalizeTheme.
EmptyTokens(theme) == \A i \in 1..Len(theme) : NormalizeWord(theme[i]) = <<>>

\* C11: areSimilarThemes returns false when either label normalises to an
\* empty token set, and two near spans with such labels are not merged.
C11_EmptyTokensNeverSimilar ==
  (EmptyTokens(simTheme1) \/ EmptyTokens(simTheme2))
  => /\ simPc \in {"returned", "merged"} => simResult = FALSE
     /\ simPc = "merged" => Len(simMerged) = 2

\* The intervals are ordered and do not overlap: each starts at or after the
\* end of the one before.
Ordered(intervals) ==
  \A i \in 1..(Len(intervals) - 1) :
    /\ intervals[i].start <= intervals[i + 1].start
    /\ intervals[i].end <= intervals[i + 1].start

\* C12: for a sorted silence list without overlap, padding >= 0 and
\* minSegmentDuration >= 0, every interval of the keep list has start < end and
\* starts at or after the end of the interval before it.
C12_KeepListWellFormed ==
  /\ \A i \in 1..Len(segments) : segments[i].start < segments[i].end
  /\ Ordered(segments)

\* The gaps between the silences widened by the padding and clamped to the
\* video: before the first, between neighbours, after the last.
WidenedGaps ==
  [i \in 1..(Len(silences) + 1) |->
     [start |-> IF i = 1 THEN 0
                ELSE Min2(videoDuration, silences[i - 1].end + padding),
      end   |-> IF i = Len(silences) + 1 THEN videoDuration
                ELSE Max2(0, silences[i].start - padding)]]

\* C13 as stated: the keep list is the list of the gaps between the widened
\* silences, whatever their length (where two widened silences overlap there
\* is no gap).
C13_KeepListIsAllGaps ==
  videoPc \in {"refine", "returned"}
  => segments = SelectSeq(WidenedGaps, LAMBDA g : g.end >= g.start)

\* C13: the example gives [0,9], [13,39], [43,50]; in general the keep list is
\* the list of the gaps between the widened silences that are at least
\* minSegmentDuration long.
C13_KeepListIsLongGaps ==
  videoPc \in {"refine", "returned"}
  => /\ segments = SelectSeq(WidenedGaps, LAMBDA g : g.end - g.start >= minSegmentDuration)
     /\ (silences = ExampleSilences /\ videoDuration = 500 /\ padding = 10
         /\ minSegmentDuration = 3)
        => segments = <<[start |-> 0, end |-> 90], [start |-> 130, end |-> 390],
                        [start |-> 430, end |-> 500]>>

\* The example has been planned.
C13_Witness ==
  /\ videoPc = "returned"
  /\ silences = ExampleSilences
  /\ Len(segments) = 3

\* C14: the refined intervals are ordered by start and each ends at or before
\* the start of the next.
C14_RefinedOrdered ==
  Ordered(segments) => Ordered(refinedSegments)

\* A segment was cut at two scene changes into three, after another was kept.
C14_Witness ==
  /\ videoPc = "returned"
  /\ Len(segments) = 2
  /\ Len(refinedSegments) = 4
  /\ Len(SegmentSceneChanges(segments[2], sceneChanges)) = 2

\* The number of records with the start, end and text of r.
TripleCount(records, r) ==
  Cardinality({i \in 1..Len(records) :
                 /\ records[i].start = r.start
                 /\ records[i].end = r.end
                 /\ records[i].text = r.text})

\* C15: parsing the formatted records gives the same multiset of
\* (start, end, text) triples as the records.
C15_ParseFormatIdempotent ==
  srtPc \in {"combine", "returned"}
  => /\ Len(srtReparsed) = Len(srtRecords)
     /\ \A i \in 1..Len(srtRecords) :
          TripleCount(srtReparsed, srtRecords[i]) = TripleCount(srtRecords, srtRecords[i])

\* C16: the formatted text numbers its cues 1, 2, ..., n in output order
\* whatever the ids of the records.
C16_FormatRenumbers ==
  (srtPc \in {"reparse", "combine", "returned"} /\ srtRecords # <<>>)
  => srtFormatted =
       Flatten([j \in 1..Len(srtRecords) |->
                  <<NumLine(j), TsNoMsLine(srtRecords[j].start, srtRecords[j].end)>>
                  \o TextLines(srtRecords[j].text) \o <<Blank>>])

\* The cues of all the texts, in the order of the texts.
AllCues == Flatten(srtCues)

\* C17: the combined text holds every cue of every text once, in the order of
\* the texts and of the cues in them, numbered 1..totalCueCount in place of
\* the index lines they had.
C17_CombineRenumbersAll ==
  srtPc = "returned"
  => combinedContent =
       Trim(Flatten([k \in 1..Len(AllCues) |-> CueLines([AllCues[k] EXCEPT !.id = k])]))

\* Two texts with cues were combined, three cues or more, an index line of the
\* second text not the number the cue gets.
C17_Witness ==
  /\ srtPc = "returned"
  /\ Len(srtCues) >= 2
  /\ srtCues[1] # <<>>
  /\ srtCues[2] # <<>>
  /\ Len(AllCues) >= 3
  /\ srtCues[2][1].id # Len(srtCues[1]) + 1

\* C18: with offset 0 the start and the end written are the start and the end
\* read, for every well-formed pair of times.
C18_ZeroOffsetIdentity ==
  (adjPc = "returned" /\ offsetSeconds = 0) => adjOut = <<adjStart, adjEnd>>

\* C19: the windows begun are window 0, 1, ... with window i from
\* i * chunkDuration to min((i + 1) * chunkDuration, totalDuration); each is not
\* empty and at most chunkDuration long, each starts where the one before
\* ended, and a run that completes has processed ceil(totalDuration /
\* chunkDuration) windows, from 0 to totalDuration.
C19_WindowsCoverDuration ==
  /\ \A j \in 1..Len(windows) :
       /\ windows[j].start = (j - 1) * chunkDurationSec
       /\ windows[j].end = Min2(j * chunkDurationSec, videoDurationSec)
       /\ windows[j].start < windows[j].end
       /\ windows[j].end - windows[j].start <= chunkDurationSec
       /\ j > 1 => windows[j].start = windows[j - 1].end
  /\ audioPc = "written"
     => /\ Len(windows) * chunkDurationSec >= videoDurationSec
        /\ (Len(windows) - 1) * chunkDurationSec < videoDurationSec
        /\ windows[1].start = 0
        /\ windows[Len(windows)].end = videoDurationSec

\* Three windows were processed, the last one shorter than the others.
C19_Witness ==
  /\ audioPc = "written"
  /\ Len(windows) = 3
  /\ windows[3].end - windows[3].start < chunkDurationSec

\* C20: the themes written to the themes file are in non-decreasing order of
\* start, on the single-call path and on the processLargeSrt path, whatever
\* the order of the spans in the extractor's answers.
C20_ThemesFileOrdered ==
  themesFile # <<>>
  => \A i, j \in 1..Len(themesFile[1]) :
       i < j => timeToSeconds(themesFile[1][i].start) <= timeToSeconds(themesFile[1][j].start)

\* The answered calls of processLargeSrt and of splitAndProcessChunk.
LargeCalls == SelectSeq(calls, LAMBDA e : e.level # "single")

\* C21: within one processLargeSrt call the extractor is called at most once
\* for each first-level chunk and at most once for each sub-chunk; a failed
\* chunk gives at most 4 sub-chunks (for every cue count, by the size
\* max(5, ceil(n/4))), which partition its cues and are never split again; so
\* there are at most 5 calls for each first-level chunk.
C21_CallsBounded ==
  /\ \A i, k \in 1..Len(LargeCalls) :
       (/\ LargeCalls[i].level = LargeCalls[k].level
        /\ LargeCalls[i].chunk = LargeCalls[k].chunk
        /\ LargeCalls[i].sub = LargeCalls[k].sub) => i = k
  /\ \A i \in 1..Len(inFlight) : \A k \in 1..Len(LargeCalls) :
       ~(/\ LargeCalls[k].level = inFlight[i].level
         /\ LargeCalls[k].chunk = inFlight[i].chunk
         /\ LargeCalls[k].sub = inFlight[i].sub)
  /\ \A i \in 1..Len(LargeCalls) : LargeCalls[i].level \in {"chunk", "sub"}
  /\ \A n \in 0..(8 * MaxBlocks) :
       LET cues == [i \in 1..n |-> i]
       IN  Len(SubSlices(cues, 0, SubChunkSize(cues))) <= 4
  /\ Len(subChunks) <= 4
  /\ pc \in {"sub", "subWait"} => Flatten(subSubtitles) = parseSrt(chunks[chunkIndex])
  /\ \A c \in 1..Len(chunks) : Len(SubCallsOf(c)) <= 4
  /\ Len(LargeCalls) <= 5 * Len(chunks)

\* A finished run in which a chunk was answered and another chunk was split
\* into two sub-chunks that were both sent.
C21_Witness ==
  /\ pc = "done"
  /\ \E c, d \in 1..Len(chunks) :
       /\ Len(SubCallsOf(c)) = 2
       /\ \E i \in 1..Len(calls) :
            calls[i].level = "chunk" /\ calls[i].chunk = d /\ calls[i].out = "ok"
  /\ Len(LargeCalls) >= 4

\* The outcome of chunk c is final: it was answered, or it was split after
\* FORCE_SPLIT and every one of its sub-chunks was answered or skipped.
ChunkFinal(c) ==
  \E i \in 1..Len(calls) :
    /\ calls[i].level = "chunk"
    /\ calls[i].chunk = c
    /\ \/ calls[i].out = "ok"
       \/ /\ calls[i].out = "FORCE_SPLIT"
          /\ LET subs == parseSrt(chunks[c])
             IN  Len(SubCallsOf(c)) = Len(SubSlices(subs, 0, SubChunkSize(subs)))
          /\ \A j \in 1..Len(SubCallsOf(c)) : SubCallsOf(c)[j].out \in {"ok", "FORCE_SPLIT"}

\* C22: the extraction is sequential: at most one extractor call is in flight,
\* the calls are made in chunk order, and a call for a chunk - in flight or
\* answered - is made only when the outcome of every chunk before it is final.
C22_Sequential ==
  /\ Len(inFlight) <= 1
  /\ inFlight # <<>> => pc \in {"singleWait", "chunkWait", "subWait"}
  /\ \A i, k \in 1..Len(LargeCalls) :
       i < k => /\ LargeCalls[i].chunk <= LargeCalls[k].chunk
                /\ LargeCalls[i].chunk = LargeCalls[k].chunk
                   => LargeCalls[i].sub < LargeCalls[k].sub
  /\ \A i \in 1..Len(LargeCalls) :
       \A c \in 1..(LargeCalls[i].chunk - 1) : ChunkFinal(c)
  /\ \A i \in 1..Len(inFlight) :
       inFlight[i].level # "single"
       => /\ \A c \in 1..(inFlight[i].chunk - 1) : ChunkFinal(c)
          /\ \A k \in 1..Len(LargeCalls) :
               /\ LargeCalls[k].chunk <= inFlight[i].chunk
               /\ LargeCalls[k].chunk = inFlight[i].chunk
                  => LargeCalls[k].sub < inFlight[i].sub

\* The call for a later chunk is in flight after the chunk before it was split
\* and its sub-chunks were answered.
C22_Witness ==
  /\ pc = "chunkWait"
  /\ Len(inFlight) = 1
  /\ inFlight[1].chunk >= 2
  /\ Len(SubCallsOf(inFlight[1].chunk - 1)) >= 2

\* C23: every span mergeOverlappingThemes returns has the start and the label
\* of the first span, in start order, of the run of input spans merged into it,
\* and as end the greatest end of that run; the runs are the sorted input cut
\* in pieces; the result has no more spans than the input, none for an empty
\* input, and a single span is returned as it is.
C23_SpanFromItsRun ==
  mPc \in {"returned", "again"}
  => /\ Len(mRun) = Len(mResult)
     /\ Flatten(mRun) = SortByStart(mGiven)
     /\ \A k \in 1..Len(mResult) :
          /\ mRun[k] # <<>>
          /\ mResult[k].start = mRun[k][1].start
          /\ mResult[k].theme = mRun[k][1].theme
          /\ \E i \in 1..Len(mRun[k]) : mResult[k].end = mRun[k][i].end
          /\ \A i \in 1..Len(mRun[k]) :
               timeToSeconds(mResult[k].end) >= timeToSeconds(mRun[k][i].end)
     /\ Len(mResult) <= Len(mGiven)
     /\ mGiven = <<>> => mResult = <<>>
     /\ Len(mGiven) = 1 => mResult = mGiven

\* A returned span made of several input spans: the first one of the run was
\* not passed first, another one carries a different label, and the end comes
\* from a later one.
C23_Witness ==
  /\ mPc = "returned"
  /\ \E k \in 1..Len(mRun) :
       /\ Len(mRun[k]) >= 2
       /\ mRun[k][1] # mGiven[1]
       /\ \E i \in 2..Len(mRun[k]) : mRun[k][i].theme # mRun[k][1].theme
       /\ mResult[k].end # mRun[k][1].end

\* The scene changes a segment contains, its two ends included.
ContainedScenes(segment) ==
  SelectSeq(sceneChanges, LAMBDA t : segment.start <= t /\ t <= segment.end)

\* The pieces between the consecutive cut points of a segment: its start, each
\* contained scene change, its end.
Pieces(segment) ==
  LET cuts == <<segment.start>> \o ContainedScenes(segment) \o <<segment.end>>
  IN  [i \in 1..(Len(cuts) - 1) |-> [start |-> cuts[i], end |-> cuts[i + 1]]]

\* What the refinement is to leave of one segment.
Refined(segment) ==
  IF Len(ContainedScenes(segment)) < 2
  THEN IF segment.end - segment.start < 2 * minSegmentDuration THEN <<>> ELSE <<segment>>
  ELSE SelectSeq(Pieces(segment), LAMBDA piece : piece.end - piece.start >= minSegmentDuration)

\* C24: refineSegmentsWithSceneInfo drops a segment with fewer than 2 scene
\* changes exactly when it is shorter than 2 * minSegmentDuration and keeps it
\* unchanged otherwise; a segment with 2 or more scene changes is replaced by
\* the pieces between its consecutive cut points that are at least
\* minSegmentDuration long; the segments are treated in order.
C24_RefinedBySceneChanges ==
  videoPc \in {"refine", "returned"}
  => refinedSegments = Flatten([k \in 1..(segmentIndex - 1) |-> Refined(segments[k])])

\* A refined list for which one segment was dropped whole and another, with a
\* scene change at one of its ends, was cut in pieces of which one was dropped.
C24_Witness ==
  /\ videoPc = "returned"
  /\ \E k \in 1..Len(segments) :
       Len(ContainedScenes(segments[k])) < 2 /\ Refined(segments[k]) = <<>>
  /\ \E k \in 1..Len(segments) :
       /\ Len(ContainedScenes(segments[k])) >= 2
       /\ \E i \in 1..Len(sceneChanges) :
            sceneChanges[i] \in {segments[k].start, segments[k].end}
       /\ Refined(segments[k]) # <<>>
       /\ Len(Refined(segments[k])) < Len(Pieces(segments[k]))

\* C30: for a silence list that is sorted, non-overlapping and inside
\* [0, totalDuration], and a padding of 0 or more, every keep interval of the
\* planner lies within [0, totalDuration], is at least minSegmentDuration long
\* and contains no point strictly inside a detected silence.
C30_KeepOutsideSilences ==
  \A k \in 1..Len(segments) :
    /\ 0 <= segments[k].start
    /\ segments[k].end <= videoDuration
    /\ segments[k].end - segments[k].start >= minSegmentDuration
    /\ \A i \in 1..Len(silences) :
         ~(segments[k].start < silences[i].end /\ segments[k].end > silences[i].start)

\* The planner is done: two silences, a padding above 0, a gap that was
\* dropped and a keep interval that starts after the padded end of a silence.
C30_Witness ==
  /\ videoPc = "refine"
  /\ Len(silences) = 2
  /\ padding > 0
  /\ segments # <<>>
  /\ Len(segments) < Len(silences) + 1
  /\ \E k \in 1..Len(segments) : \E i \in 1..Len(silences) :
       segments[k].start = silences[i].end + padding

\* The text includes the message.
Includes(text, message) == \E i \in 1..Len(text) : text[i] = message

\* C25: when the audio extraction or the transcription of a window fails in
\* processSplitAudio, the window is not tried again, no later window is taken,
\* the combined file is not written, and the error thrown to the caller
\* includes the text of the original message; nothing happens afterwards.
C25_FailureState ==
  /\ Len(windows) = windowIndex + (IF audioPc \in {"transcribe", "thrown"} THEN 1 ELSE 0)
  /\ \A i \in 1..Len(windows) : windows[i].start = WindowStart(i - 1, chunkDurationSec)
  /\ Len(allTranscriptions) = windowIndex
  /\ audioThrown # <<>> <=> audioPc = "thrown"
  /\ audioPc = "thrown"
     => /\ outputSrt = <<>>
        /\ Len(audioThrown) = 1
        /\ Includes(audioThrown[1], FfmpegFailed) \/ Includes(audioThrown[1], WhisperFailed)
  /\ outputSrt # <<>> => audioPc = "written"

C25_FailureStep ==
  /\ audioPc = "thrown" => UNCHANGED audiovars
  /\ (audioPc = "window" /\ audioPc' = "thrown") => Includes(audioThrown'[1], FfmpegFailed)
  /\ (audioPc = "transcribe" /\ audioPc' = "thrown") => Includes(audioThrown'[1], WhisperFailed)

C25_FailureEndsRun == []C25_FailureState /\ [][C25_FailureStep]_vars

\* The transcription of the second window failed with a window left.
C25_Witness ==
  /\ audioPc = "thrown"
  /\ windowIndex = 1
  /\ audioChunks >= 3
  /\ Includes(audioThrown[1], WhisperFailed)

\* C26: the transcript of window i has every cue time shifted by exactly
\* i * chunkDuration before the transcripts are combined: the start and the end
\* written are the start and the end read plus the offset, to the millisecond.
C26_ShiftedByOffset ==
  adjPc = "returned"
  => /\ timeToSeconds(adjOut[1]) = timeToSeconds(adjStart) + 1000 * offsetSeconds
     /\ timeToSeconds(adjOut[2]) = timeToSeconds(adjEnd) + 1000 * offsetSeconds

\* C28: the label similarity is symmetric: areSimilarThemes(a, b) returns what
\* areSimilarThemes(b, a) returns, also for labels with a repeated token.
C28_SimilaritySymmetric ==
  simPc \in {"returned", "merged"} => simResult = areSimilarThemes(simTheme2, simTheme1)

\* C29: mergeOverlappingThemes does not modify its input: at every point of
\* the call the caller's array holds the spans it was passed, in the order
\* they were passed.
C29_InputNotModified == mInput = mGiven

\* The calls made, without the "data" events.
CallsMade == SelectSeq(runLog, LAMBDA e : e # "data")

\* The steps of the workflow among the calls made.
StepsMade == SelectSeq(CallsMade, LAMBDA e : e \notin {"waitForUserConfirmation", "loadConfig"})

====
